---- MODULE Spec2Model ----
(***************************************************************************)
(* Model of the ring buffer of src/src/ring-buffer.c.                      *)
(*                                                                         *)
(* One handle (RingBufferHnadler_t) and the block of backing memory its    *)
(* data field points to.  The backing memory is modelled slot by slot:     *)
(* slot i is the data_size bytes at base + i * data_size, which memcpy     *)
(* reads and writes as a whole.  The code copies elements and never        *)
(* inspects them, so two element values are enough to tell any two slots   *)
(* apart.  Every public function is an operator from the handle, the       *)
(* memory, the caller's output buffer and the arguments to the handle,     *)
(* memory and output buffer after the call, the value returned and the     *)
(* list of the hook calls and of the accesses to start, size and the       *)
(* backing memory the call has made, in the order of the code.  One action *)
(* per public function applies it (Spec).                                  *)
(*                                                                         *)
(* SpecScenario runs the functions through a fixed script of calls on      *)
(* elements 1..MaxVal.  SpecIrq runs the calls of the main flow statement  *)
(* by statement and lets an interrupt handler run whole calls in between,  *)
(* wherever the hooks do not mask it.  SpecPair brings the buffer to any   *)
(* start and size and then records two consecutive calls, each with the    *)
(* handle and memory before it and its outcome.                            *)
(* SpecWord runs the index arithmetic at the width of size_t, SpecFields   *)
(* starts from handles whose fields are assigned directly, as the unit     *)
(* tests do, and SpecLive runs the main flow alone under fairness.         *)
(***************************************************************************)
EXTENDS Integers, Sequences, FiniteSets, TLC

\* Bound of the model: the largest capacity given to ring_buffer_init.
MaxCap == 3

\* The values of an element: all bytes zero, or not.
Items == {0, 1}
\* The element sizes given to ring_buffer_init: sizeof(int), as in the tests.
DataSizes == {4}
\* The handle keeps the element size in a uint16_t field (ring-buffer.h).
DataSizeWidth == 16
\* The caller's output buffer before a call, as in the tests: Point p = { 0 }.
ZeroItem == 0

VARIABLES
    buffer,   \* the handle: start, size, data_size, capacity, cs_enter, cs_exit, data
    mem,      \* the bytes of the block buffer.data points to
    ready,    \* the last ring_buffer_init on the handle returned RING_BUFFER_OK
    out,      \* the output buffer of the last call after the call (zeroed before it)
    op,       \* the last call: function name and arguments
    ret,      \* what the last call returned
    log,      \* hook calls and accesses made by the last call, in order
    deque,    \* abstract double-ended sequence run side by side
    aret,     \* what the abstract sequence returned for the last call
    hist,     \* push_back-then-pop scenario tracker
    script,   \* the scripted run: its elements, its position, what it has observed
    main      \* the call of the main flow in progress or just finished, by statement

vars == <<buffer, mem, ready, out, op, ret, log, deque, aret, hist, script, main>>

----------------------------------------------------------------------------
(* Return values *)

RING_BUFFER_OK == "RING_BUFFER_OK"
RING_BUFFER_NULL_POINTER == "RING_BUFFER_NULL_POINTER"
RING_BUFFER_EMPTY == "RING_BUFFER_EMPTY"
RING_BUFFER_FULL == "RING_BUFFER_FULL"

\* The absent reference returned by the peek functions (a byte offset otherwise).
NullRef == 0 - 1

\* A return code; flag, count and ref are the results of the functions
\* that return a bool, a size_t or a pointer into the backing memory.
Code(c) == [code |-> c, flag |-> FALSE, count |-> 0, ref |-> NullRef]
Flag(f) == [code |-> "none", flag |-> f, count |-> 0, ref |-> NullRef]
Count(n) == [code |-> "none", flag |-> FALSE, count |-> n, ref |-> NullRef]
Ref(r) == [code |-> "none", flag |-> FALSE, count |-> 0, ref |-> r]

\* The outcome of one call.
Res(b, m, o, r, l) == [buffer |-> b, mem |-> m, out |-> o, ret |-> r, log |-> l]

----------------------------------------------------------------------------
(* Backing memory *)

\* calloc: count slots of size bytes each, all zero.
Zeroed(size, count) == [k \in 0..(count - 1) |-> 0]

\* memcpy(out, base + idx * data_size, data_size)
Load(m, idx) == m[idx]

\* memcpy(base + idx * data_size, item, data_size)
\* memcpy of twice data_size bytes: it runs over the slot that follows.
Store_two(m, idx, item) ==
    [k \in DOMAIN m |-> IF k = idx \/ k = idx + 1 THEN item ELSE m[k]]
Store(m, idx, item) == [m EXCEPT ![idx] = item]

----------------------------------------------------------------------------
(* Index arithmetic.  Indices are size_t; with size <= capacity and       *)
(* start < capacity no sum below leaves 0 .. 2 * capacity - 1.             *)

\* The test that guards both pushes: buffer->size >= buffer->capacity.
SizeAtCapacity_strict(b) == b.size > b.capacity
SizeAtCapacity(b) == b.size >= b.capacity

\* The test that guards the pops, front, back and the peeks: buffer->size == 0.
SizeIsZero(b) == b.size = 0

\* push_front: if (start == 0) start = capacity; --start;
PushFrontStart_clamp(b) == IF b.start = 0 THEN 0 ELSE b.start - 1
PushFrontStart(b) ==
    LET s == IF b.start = 0 THEN b.capacity ELSE b.start
    IN s - 1

\* push_back: cur = start + size; if (cur >= capacity) cur -= capacity;
PushBackIndex_off_by_one(b) ==
    LET cur == b.start + b.size
    IN IF cur >= b.capacity THEN cur - b.capacity + 1 ELSE cur
PushBackIndex_reset(b) ==
    LET cur == b.start + b.size
    IN IF cur >= b.capacity THEN 0 ELSE cur
PushBackIndex(b) ==
    LET cur == b.start + b.size
    IN IF cur >= b.capacity THEN cur - b.capacity ELSE cur

\* pop_front: ++start; if (start >= capacity) start = 0;
PopFrontStart_early(b) ==
    LET s == b.start + 1
    IN IF s >= b.capacity - 1 THEN 0 ELSE s
PopFrontStart(b) ==
    LET s == b.start + 1
    IN IF s >= b.capacity THEN 0 ELSE s

\* pop_back, back, peek_back: cur = start + size - 1; if (cur >= capacity) cur -= capacity;
BackIndex_floor(b) ==
    LET cur == b.start + b.size - 1
    IN IF cur >= b.capacity THEN b.capacity - 1 ELSE cur
BackIndex_reset(b) ==
    LET cur == b.start + b.size - 1
    IN IF cur >= b.capacity THEN 0 ELSE cur
BackIndex(b) ==
    LET cur == b.start + b.size - 1
    IN IF cur >= b.capacity THEN cur - b.capacity ELSE cur

----------------------------------------------------------------------------
(* The public functions *)

\* ring_buffer_init.  hasBuf, hasArena: the pointer is not NULL; enter,
\* exit: the hook given or "NULL"; allocOk: the arena satisfies the request.
\* ring_buffer_init that stores the hooks as given, NULL included.
ring_buffer_init_keeps_null(b, m, o, hasBuf, data_size, capacity, enter, exit, hasArena, allocOk) ==
    IF ~hasBuf \/ ~hasArena
    THEN Res(b, m, o, Code(RING_BUFFER_NULL_POINTER), <<>>)
    ELSE LET b1 == [start |-> 0,
                    size |-> 0,
                    data_size |-> data_size % (2 ^ DataSizeWidth),
                    capacity |-> capacity,
                    cs_enter |-> enter,
                    cs_exit |-> exit,
                    data |-> IF allocOk THEN "block" ELSE "NULL"]
             l == <<"wr_start", "wr_size", "calloc", "wr_data">>
         IN IF allocOk
            THEN Res(b1, Zeroed(data_size, capacity), o, Code(RING_BUFFER_OK), l)
            ELSE Res(b1, <<>>, o, Code(RING_BUFFER_NULL_POINTER), l)

\* ring_buffer_init that tests the arena only after the allocation request.
ring_buffer_init_alloc_first(b, m, o, hasBuf, data_size, capacity, enter, exit, hasArena, allocOk) ==
    IF ~hasBuf
    THEN Res(b, m, o, Code(RING_BUFFER_NULL_POINTER), <<>>)
    ELSE IF ~hasArena
    THEN Res(b, m, o, Code(RING_BUFFER_NULL_POINTER), <<"calloc">>)
    ELSE LET b1 == [start |-> 0,
                    size |-> 0,
                    data_size |-> data_size % (2 ^ DataSizeWidth),
                    capacity |-> capacity,
                    cs_enter |-> IF enter # "NULL" THEN enter ELSE "ring_buffer_cs_dummy",
                    cs_exit |-> IF exit # "NULL" THEN exit ELSE "ring_buffer_cs_dummy",
                    data |-> IF allocOk THEN "block" ELSE "NULL"]
             l == <<"wr_start", "wr_size", "calloc", "wr_data">>
         IN IF allocOk
            THEN Res(b1, Zeroed(data_size, capacity), o, Code(RING_BUFFER_OK), l)
            ELSE Res(b1, <<>>, o, Code(RING_BUFFER_NULL_POINTER), l)
ring_buffer_init(b, m, o, hasBuf, data_size, capacity, enter, exit, hasArena, allocOk) ==
    IF ~hasBuf \/ ~hasArena
    THEN Res(b, m, o, Code(RING_BUFFER_NULL_POINTER), <<>>)
    ELSE LET b1 == [start |-> 0,
                    size |-> 0,
                    data_size |-> data_size % (2 ^ DataSizeWidth),
                    capacity |-> capacity,
                    cs_enter |-> IF enter # "NULL" THEN enter ELSE "ring_buffer_cs_dummy",
                    cs_exit |-> IF exit # "NULL" THEN exit ELSE "ring_buffer_cs_dummy",
                    data |-> IF allocOk THEN "block" ELSE "NULL"]
             l == <<"wr_start", "wr_size", "calloc", "wr_data">>
         IN IF allocOk
            THEN Res(b1, Zeroed(data_size, capacity), o, Code(RING_BUFFER_OK), l)
            ELSE Res(b1, <<>>, o, Code(RING_BUFFER_NULL_POINTER), l)

ring_buffer_is_empty(b, m, o, hasBuf) ==
    IF ~hasBuf
    THEN Res(b, m, o, Flag(TRUE), <<>>)
    ELSE Res(b, m, o, Flag(b.size = 0), <<"rd_size">>)

\* ring_buffer_is_full that keeps one slot free.
ring_buffer_is_full_one_free(b, m, o, hasBuf) ==
    IF ~hasBuf
    THEN Res(b, m, o, Flag(FALSE), <<>>)
    ELSE Res(b, m, o, Flag(b.size + 1 >= b.capacity), <<"rd_size">>)
\* ring_buffer_is_full that reports full only beyond the capacity.
ring_buffer_is_full_strict(b, m, o, hasBuf) ==
    IF ~hasBuf
    THEN Res(b, m, o, Flag(FALSE), <<>>)
    ELSE Res(b, m, o, Flag(b.size > b.capacity), <<"rd_size">>)
ring_buffer_is_full(b, m, o, hasBuf) ==
    IF ~hasBuf
    THEN Res(b, m, o, Flag(FALSE), <<>>)
    ELSE Res(b, m, o, Flag(b.size >= b.capacity), <<"rd_size">>)

ring_buffer_size(b, m, o, hasBuf) ==
    IF ~hasBuf
    THEN Res(b, m, o, Count(0), <<>>)
    ELSE Res(b, m, o, Count(b.size), <<"rd_size">>)

\* ring_buffer_push_front that copies the item into the slot start had before.
ring_buffer_push_front_old_slot(b, m, o, hasBuf, hasItem, item) ==
    IF ~hasBuf \/ ~hasItem
    THEN Res(b, m, o, Code(RING_BUFFER_NULL_POINTER), <<>>)
    ELSE IF SizeAtCapacity(b)
    THEN Res(b, m, o, Code(RING_BUFFER_FULL), <<"cs_enter", "rd_size", "cs_exit">>)
    ELSE LET s == PushFrontStart(b)
             b1 == [b EXCEPT !.start = s, !.size = b.size + 1]
         IN Res(b1, IF b.start \in DOMAIN m THEN Store(m, b.start, item) ELSE m, o,
                Code(RING_BUFFER_OK),
                <<"cs_enter", "rd_size", "rd_start", "wr_start", "wr_size", "wr_mem", "cs_exit">>)
\* ring_buffer_push_front with the item tested for NULL after the test for a full buffer.
ring_buffer_push_front_late_null(b, m, o, hasBuf, hasItem, item) ==
    IF ~hasBuf
    THEN Res(b, m, o, Code(RING_BUFFER_NULL_POINTER), <<>>)
    ELSE IF SizeAtCapacity(b)
    THEN Res(b, m, o, Code(RING_BUFFER_FULL), <<"cs_enter", "rd_size", "cs_exit">>)
    ELSE IF ~hasItem
    THEN Res(b, m, o, Code(RING_BUFFER_NULL_POINTER), <<"cs_enter", "rd_size", "cs_exit">>)
    ELSE LET s == PushFrontStart(b)
             b1 == [b EXCEPT !.start = s, !.size = b.size + 1]
         IN Res(b1, Store(m, s, item), o, Code(RING_BUFFER_OK),
                <<"cs_enter", "rd_size", "rd_start", "wr_start", "wr_size", "wr_mem", "cs_exit">>)

ring_buffer_push_front(b, m, o, hasBuf, hasItem, item) ==
    IF ~hasBuf \/ ~hasItem
    THEN Res(b, m, o, Code(RING_BUFFER_NULL_POINTER), <<>>)
    ELSE IF SizeAtCapacity(b)
    THEN Res(b, m, o, Code(RING_BUFFER_FULL), <<"cs_enter", "rd_size", "cs_exit">>)
    ELSE LET s == PushFrontStart(b)
             b1 == [b EXCEPT !.start = s, !.size = b.size + 1]
         IN Res(b1, Store(m, s, item), o, Code(RING_BUFFER_OK),
                <<"cs_enter", "rd_size", "rd_start", "wr_start", "wr_size", "wr_mem", "cs_exit">>)

\* ring_buffer_push_back that rewinds start to 0 when the buffer is empty.
ring_buffer_push_back_rewind(b, m, o, hasBuf, hasItem, item) ==
    IF ~hasBuf \/ ~hasItem
    THEN Res(b, m, o, Code(RING_BUFFER_NULL_POINTER), <<>>)
    ELSE IF SizeAtCapacity(b)
    THEN Res(b, m, o, Code(RING_BUFFER_FULL), <<"cs_enter", "rd_size", "cs_exit">>)
    ELSE LET b0 == IF b.size = 0 THEN [b EXCEPT !.start = 0] ELSE b
             cur == PushBackIndex(b0)
             b1 == [b0 EXCEPT !.size = b.size + 1]
         IN Res(b1, Store(m, cur, item), o, Code(RING_BUFFER_OK),
                <<"cs_enter", "rd_size", "rd_start", "wr_mem", "wr_size", "cs_exit">>)
\* ring_buffer_push_back with the item copied before the test for a full buffer.
ring_buffer_push_back_copy_first(b, m, o, hasBuf, hasItem, item) ==
    IF ~hasBuf \/ ~hasItem
    THEN Res(b, m, o, Code(RING_BUFFER_NULL_POINTER), <<>>)
    ELSE LET cur == PushBackIndex(b)
             m1 == IF cur \in DOMAIN m THEN Store(m, cur, item) ELSE m
         IN IF SizeAtCapacity(b)
            THEN Res(b, m1, o, Code(RING_BUFFER_FULL), <<"cs_enter", "wr_mem", "rd_size", "cs_exit">>)
            ELSE Res([b EXCEPT !.size = b.size + 1], m1, o, Code(RING_BUFFER_OK),
                     <<"cs_enter", "rd_start", "wr_mem", "rd_size", "wr_size", "cs_exit">>)

ring_buffer_push_back(b, m, o, hasBuf, hasItem, item) ==
    IF ~hasBuf \/ ~hasItem
    THEN Res(b, m, o, Code(RING_BUFFER_NULL_POINTER), <<>>)
    ELSE IF SizeAtCapacity(b)
    THEN Res(b, m, o, Code(RING_BUFFER_FULL), <<"cs_enter", "rd_size", "cs_exit">>)
    ELSE LET cur == PushBackIndex(b)
             b1 == [b EXCEPT !.size = b.size + 1]
         IN Res(b1, Store(m, cur, item), o, Code(RING_BUFFER_OK),
                <<"cs_enter", "rd_size", "rd_start", "wr_mem", "wr_size", "cs_exit">>)

\* ring_buffer_pop_front that copies the element after it has moved start.
ring_buffer_pop_front_reads_next(b, m, o, hasBuf, hasOut) ==
    IF ~hasBuf
    THEN Res(b, m, o, Code(RING_BUFFER_NULL_POINTER), <<>>)
    ELSE IF SizeIsZero(b)
    THEN Res(b, m, o, Code(RING_BUFFER_EMPTY), <<"cs_enter", "rd_size", "cs_exit">>)
    ELSE LET b1 == [b EXCEPT !.start = PopFrontStart(b), !.size = b.size - 1]
         IN IF hasOut /\ b1.start \in DOMAIN m
            THEN Res(b1, m, Load(m, b1.start), Code(RING_BUFFER_OK),
                     <<"cs_enter", "rd_size", "wr_start", "wr_size", "rd_start", "rd_mem", "cs_exit">>)
            ELSE Res(b1, m, o, Code(RING_BUFFER_OK),
                     <<"cs_enter", "rd_size", "wr_start", "wr_size", "cs_exit">>)
\* ring_buffer_pop_front that requires the output buffer, as ring_buffer_front does.
ring_buffer_pop_front_needs_out(b, m, o, hasBuf, hasOut) ==
    IF ~hasBuf \/ ~hasOut
    THEN Res(b, m, o, Code(RING_BUFFER_NULL_POINTER), <<>>)
    ELSE IF SizeIsZero(b)
    THEN Res(b, m, o, Code(RING_BUFFER_EMPTY), <<"cs_enter", "rd_size", "cs_exit">>)
    ELSE Res([b EXCEPT !.start = PopFrontStart(b), !.size = b.size - 1], m, Load(m, b.start),
             Code(RING_BUFFER_OK),
             <<"cs_enter", "rd_size", "rd_start", "rd_mem", "wr_start", "wr_size", "cs_exit">>)

ring_buffer_pop_front(b, m, o, hasBuf, hasOut) ==
    IF ~hasBuf
    THEN Res(b, m, o, Code(RING_BUFFER_NULL_POINTER), <<>>)
    ELSE IF SizeIsZero(b)
    THEN Res(b, m, o, Code(RING_BUFFER_EMPTY), <<"cs_enter", "rd_size", "cs_exit">>)
    ELSE LET b1 == [b EXCEPT !.start = PopFrontStart(b), !.size = b.size - 1]
         IN IF hasOut
            THEN Res(b1, m, Load(m, b.start), Code(RING_BUFFER_OK),
                     <<"cs_enter", "rd_size", "rd_start", "rd_mem", "wr_start", "wr_size", "cs_exit">>)
            ELSE Res(b1, m, o, Code(RING_BUFFER_OK),
                     <<"cs_enter", "rd_size", "wr_start", "wr_size", "cs_exit">>)

\* ring_buffer_pop_back that zeroes the slot it has popped.
ring_buffer_pop_back_zeroes(b, m, o, hasBuf, hasOut) ==
    IF ~hasBuf
    THEN Res(b, m, o, Code(RING_BUFFER_NULL_POINTER), <<>>)
    ELSE IF SizeIsZero(b)
    THEN Res(b, m, o, Code(RING_BUFFER_EMPTY), <<"cs_enter", "rd_size", "cs_exit">>)
    ELSE LET b1 == [b EXCEPT !.size = b.size - 1]
             cur == BackIndex(b)
             m1 == IF cur \in DOMAIN m THEN Store(m, cur, ZeroItem) ELSE m
         IN IF hasOut /\ cur \in DOMAIN m
            THEN Res(b1, m1, Load(m, cur), Code(RING_BUFFER_OK),
                     <<"cs_enter", "rd_size", "rd_start", "rd_mem", "wr_mem", "wr_size", "cs_exit">>)
            ELSE Res(b1, m1, o, Code(RING_BUFFER_OK),
                     <<"cs_enter", "rd_size", "wr_mem", "wr_size", "cs_exit">>)
\* ring_buffer_pop_back that takes one off size before it computes the index.
ring_buffer_pop_back_dec_first(b, m, o, hasBuf, hasOut) ==
    IF ~hasBuf
    THEN Res(b, m, o, Code(RING_BUFFER_NULL_POINTER), <<>>)
    ELSE IF SizeIsZero(b)
    THEN Res(b, m, o, Code(RING_BUFFER_EMPTY), <<"cs_enter", "rd_size", "cs_exit">>)
    ELSE LET b1 == [b EXCEPT !.size = b.size - 1]
             cur == BackIndex(b1)
         IN IF hasOut /\ cur \in DOMAIN m
            THEN Res(b1, m, Load(m, cur), Code(RING_BUFFER_OK),
                     <<"cs_enter", "rd_size", "wr_size", "rd_start", "rd_mem", "cs_exit">>)
            ELSE Res(b1, m, o, Code(RING_BUFFER_OK),
                     <<"cs_enter", "rd_size", "wr_size", "cs_exit">>)
ring_buffer_pop_back(b, m, o, hasBuf, hasOut) ==
    IF ~hasBuf
    THEN Res(b, m, o, Code(RING_BUFFER_NULL_POINTER), <<>>)
    ELSE IF SizeIsZero(b)
    THEN Res(b, m, o, Code(RING_BUFFER_EMPTY), <<"cs_enter", "rd_size", "cs_exit">>)
    ELSE LET b1 == [b EXCEPT !.size = b.size - 1]
         IN IF hasOut
            THEN Res(b1, m, Load(m, BackIndex(b)), Code(RING_BUFFER_OK),
                     <<"cs_enter", "rd_size", "rd_start", "rd_mem", "wr_size", "cs_exit">>)
            ELSE Res(b1, m, o, Code(RING_BUFFER_OK),
                     <<"cs_enter", "rd_size", "wr_size", "cs_exit">>)

\* ring_buffer_front with the element copied before the test for an empty buffer.
ring_buffer_front_copy_first(b, m, o, hasBuf, hasOut) ==
    IF ~hasBuf \/ ~hasOut
    THEN Res(b, m, o, Code(RING_BUFFER_NULL_POINTER), <<>>)
    ELSE LET o1 == IF b.start \in DOMAIN m THEN Load(m, b.start) ELSE o
         IN IF SizeIsZero(b)
            THEN Res(b, m, o1, Code(RING_BUFFER_EMPTY), <<"cs_enter", "rd_start", "rd_mem", "rd_size", "cs_exit">>)
            ELSE Res(b, m, o1, Code(RING_BUFFER_OK), <<"cs_enter", "rd_start", "rd_mem", "rd_size", "cs_exit">>)

ring_buffer_front(b, m, o, hasBuf, hasOut) ==
    IF ~hasBuf \/ ~hasOut
    THEN Res(b, m, o, Code(RING_BUFFER_NULL_POINTER), <<>>)
    ELSE IF SizeIsZero(b)
    THEN Res(b, m, o, Code(RING_BUFFER_EMPTY), <<"cs_enter", "rd_size", "cs_exit">>)
    ELSE Res(b, m, Load(m, b.start), Code(RING_BUFFER_OK),
             <<"cs_enter", "rd_size", "rd_start", "rd_mem", "cs_exit">>)

\* ring_buffer_back that copies the first element.
ring_buffer_back_reads_front(b, m, o, hasBuf, hasOut) ==
    ring_buffer_front(b, m, o, hasBuf, hasOut)
ring_buffer_back(b, m, o, hasBuf, hasOut) ==
    IF ~hasBuf \/ ~hasOut
    THEN Res(b, m, o, Code(RING_BUFFER_NULL_POINTER), <<>>)
    ELSE IF SizeIsZero(b)
    THEN Res(b, m, o, Code(RING_BUFFER_EMPTY), <<"cs_enter", "rd_size", "cs_exit">>)
    ELSE Res(b, m, Load(m, BackIndex(b)), Code(RING_BUFFER_OK),
             <<"cs_enter", "rd_size", "rd_start", "rd_mem", "cs_exit">>)

\* ring_buffer_peek_front that returns from the empty branch without cs_exit.
ring_buffer_peek_front_no_exit(b, m, o, hasBuf) ==
    IF ~hasBuf
    THEN Res(b, m, o, Ref(NullRef), <<>>)
    ELSE IF SizeIsZero(b)
    THEN Res(b, m, o, Ref(NullRef), <<"cs_enter", "rd_size">>)
    ELSE Res(b, m, o, Ref(b.start * b.data_size),
             <<"cs_enter", "rd_size", "rd_start", "cs_exit">>)
ring_buffer_peek_front(b, m, o, hasBuf) ==
    IF ~hasBuf
    THEN Res(b, m, o, Ref(NullRef), <<>>)
    ELSE IF SizeIsZero(b)
    THEN Res(b, m, o, Ref(NullRef), <<"cs_enter", "rd_size", "cs_exit">>)
    ELSE Res(b, m, o, Ref(b.start * b.data_size),
             <<"cs_enter", "rd_size", "rd_start", "cs_exit">>)

\* ring_buffer_peek_back that refers to the slot after the last element.
ring_buffer_peek_back_past_end(b, m, o, hasBuf) ==
    IF ~hasBuf
    THEN Res(b, m, o, Ref(NullRef), <<>>)
    ELSE IF SizeIsZero(b)
    THEN Res(b, m, o, Ref(NullRef), <<"cs_enter", "rd_size", "cs_exit">>)
    ELSE Res(b, m, o, Ref(PushBackIndex(b) * b.data_size),
             <<"cs_enter", "rd_size", "rd_start", "cs_exit">>)
ring_buffer_peek_back(b, m, o, hasBuf) ==
    IF ~hasBuf
    THEN Res(b, m, o, Ref(NullRef), <<>>)
    ELSE IF SizeIsZero(b)
    THEN Res(b, m, o, Ref(NullRef), <<"cs_enter", "rd_size", "cs_exit">>)
    ELSE Res(b, m, o, Ref(BackIndex(b) * b.data_size),
             <<"cs_enter", "rd_size", "rd_start", "cs_exit">>)

\* ring_buffer_clear that reports success for a NULL handle.
ring_buffer_clear_null_ok(b, m, o, hasBuf) ==
    IF ~hasBuf
    THEN Res(b, m, o, Code(RING_BUFFER_OK), <<>>)
    ELSE Res([b EXCEPT !.start = 0, !.size = 0], m, o, Code(RING_BUFFER_OK),
             <<"cs_enter", "wr_start", "wr_size", "cs_exit">>)

\* ring_buffer_clear that also puts the dummy hooks back.
ring_buffer_clear_drops_hooks(b, m, o, hasBuf) ==
    IF ~hasBuf
    THEN Res(b, m, o, Code(RING_BUFFER_NULL_POINTER), <<>>)
    ELSE Res([b EXCEPT !.start = 0, !.size = 0,
                       !.cs_enter = "ring_buffer_cs_dummy",
                       !.cs_exit = "ring_buffer_cs_dummy"],
             m, o, Code(RING_BUFFER_OK),
             <<"cs_enter", "wr_start", "wr_size", "cs_exit">>)
\* ring_buffer_clear that also zeroes the backing memory.
ring_buffer_clear_erases(b, m, o, hasBuf) ==
    IF ~hasBuf
    THEN Res(b, m, o, Code(RING_BUFFER_NULL_POINTER), <<>>)
    ELSE Res([b EXCEPT !.start = 0, !.size = 0], [k \in DOMAIN m |-> ZeroItem], o,
             Code(RING_BUFFER_OK),
             <<"cs_enter", "wr_start", "wr_size", "wr_mem", "cs_exit">>)
\* ring_buffer_clear that steps start forward when the buffer is already empty.
ring_buffer_clear_advance(b, m, o, hasBuf) ==
    IF ~hasBuf
    THEN Res(b, m, o, Code(RING_BUFFER_NULL_POINTER), <<>>)
    ELSE Res([b EXCEPT !.start = IF b.size = 0 /\ b.capacity > 1 THEN (b.start + 1) % b.capacity ELSE 0,
                       !.size = 0],
             m, o, Code(RING_BUFFER_OK),
             <<"cs_enter", "wr_start", "wr_size", "cs_exit">>)
\* ring_buffer_clear that resets size and leaves start where it is.
ring_buffer_clear_size_only(b, m, o, hasBuf) ==
    IF ~hasBuf
    THEN Res(b, m, o, Code(RING_BUFFER_NULL_POINTER), <<>>)
    ELSE Res([b EXCEPT !.size = 0], m, o, Code(RING_BUFFER_OK),
             <<"cs_enter", "wr_size", "cs_exit">>)
\* ring_buffer_clear that resets start before it calls cs_enter.
ring_buffer_clear_late_enter(b, m, o, hasBuf) ==
    IF ~hasBuf
    THEN Res(b, m, o, Code(RING_BUFFER_NULL_POINTER), <<>>)
    ELSE Res([b EXCEPT !.start = 0, !.size = 0], m, o, Code(RING_BUFFER_OK),
             <<"wr_start", "cs_enter", "wr_size", "cs_exit">>)
ring_buffer_clear(b, m, o, hasBuf) ==
    IF ~hasBuf
    THEN Res(b, m, o, Code(RING_BUFFER_NULL_POINTER), <<>>)
    ELSE Res([b EXCEPT !.start = 0, !.size = 0], m, o, Code(RING_BUFFER_OK),
             <<"cs_enter", "wr_start", "wr_size", "cs_exit">>)

----------------------------------------------------------------------------
(* The abstract bounded double-ended sequence *)

Abs(d, c, v) == [deque |-> d, code |-> c, val |-> v]

\* The abstract sequence is not consulted (absent argument, query, init).
AbsNotCalled(d) == Abs(d, "not_called", <<>>)

AbsPushFront(d, cap, x) ==
    IF Len(d) >= cap THEN Abs(d, RING_BUFFER_FULL, <<>>)
    ELSE Abs(<<x>> \o d, RING_BUFFER_OK, <<>>)

AbsPushBack(d, cap, x) ==
    IF Len(d) >= cap THEN Abs(d, RING_BUFFER_FULL, <<>>)
    ELSE Abs(Append(d, x), RING_BUFFER_OK, <<>>)

AbsPopFront(d, wanted) ==
    IF d = <<>> THEN Abs(d, RING_BUFFER_EMPTY, <<>>)
    ELSE Abs(Tail(d), RING_BUFFER_OK, IF wanted THEN <<Head(d)>> ELSE <<>>)

AbsPopBack(d, wanted) ==
    IF d = <<>> THEN Abs(d, RING_BUFFER_EMPTY, <<>>)
    ELSE Abs(SubSeq(d, 1, Len(d) - 1), RING_BUFFER_OK, IF wanted THEN <<d[Len(d)]>> ELSE <<>>)

AbsFront(d) ==
    IF d = <<>> THEN Abs(d, RING_BUFFER_EMPTY, <<>>)
    ELSE Abs(d, RING_BUFFER_OK, <<Head(d)>>)

AbsBack(d) ==
    IF d = <<>> THEN Abs(d, RING_BUFFER_EMPTY, <<>>)
    ELSE Abs(d, RING_BUFFER_OK, <<d[Len(d)]>>)

AbsPeekFront(d) == IF d = <<>> THEN Abs(d, "none", <<>>) ELSE Abs(d, "none", <<Head(d)>>)

AbsPeekBack(d) == IF d = <<>> THEN Abs(d, "none", <<>>) ELSE Abs(d, "none", <<d[Len(d)]>>)

AbsClear(d) == Abs(<<>>, RING_BUFFER_OK, <<>>)

----------------------------------------------------------------------------
(* Scenario tracker: push_back e1..en onto an empty buffer, then n pops *)

NoHist == [phase |-> "none", pending |-> <<>>, expect |-> <<>>, n |-> 0, start0 |-> 0]

\* h: tracker before the call; o: the call; b: handle before the call; r: outcome.
HistNext(h, o, b, r) ==
    IF r.ret.code # RING_BUFFER_OK THEN NoHist
    ELSE IF o.name = "push_back"
    THEN IF b.size = 0
         THEN [phase |-> "push", pending |-> <<o.item>>, expect |-> <<>>, n |-> 1, start0 |-> b.start]
         ELSE IF h.phase = "push"
         THEN [h EXCEPT !.pending = Append(h.pending, o.item), !.n = h.n + 1]
         ELSE NoHist
    ELSE IF o.name = "pop_front" /\ o.ptr /\ h.phase \in {"push", "pop_front"} /\ h.pending # <<>>
    THEN [h EXCEPT !.phase = "pop_front", !.expect = <<Head(h.pending)>>, !.pending = Tail(h.pending)]
    ELSE IF o.name = "pop_back" /\ o.ptr /\ h.phase \in {"push", "pop_back"} /\ h.pending # <<>>
    THEN [h EXCEPT !.phase = "pop_back", !.expect = <<h.pending[Len(h.pending)]>>,
                   !.pending = SubSeq(h.pending, 1, Len(h.pending) - 1)]
    ELSE NoHist

----------------------------------------------------------------------------
(* The state machine *)

NoArg == [data_size |-> 0, capacity |-> 0, enter |-> "NULL", exit |-> "NULL",
          arena |-> FALSE, allocOk |-> FALSE]

Call(name, hasBuf, hasPtr, item) ==
    [name |-> name, buf |-> hasBuf, ptr |-> hasPtr, item |-> item, arg |-> NoArg]

\* No scripted run.
NoScript == [pc |-> 0, vals |-> <<>>, trace |-> <<>>]

\* No interrupt has run since the main flow made its call.
NoIsr == [name |-> "none", pc |-> 0, slot |-> 0 - 1, code |-> "none"]

\* No call of the main flow in progress.
NoMain == [name |-> "none", pc |-> 0, item |-> 0, cur |-> 0, out |-> <<>>,
           ret |-> Code("none"), aret |-> [code |-> "not_called", val |-> <<>>],
           in_cs |-> FALSE, ub |-> FALSE, diverged |-> FALSE, isr |-> NoIsr]

\* A static handle before ring_buffer_init: all fields zero.
Init ==
    /\ buffer = [start |-> 0, size |-> 0, data_size |-> 0, capacity |-> 0,
                 cs_enter |-> "NULL", cs_exit |-> "NULL", data |-> "NULL"]
    /\ mem = <<>>
    /\ ready = FALSE
    /\ out = ZeroItem
    /\ op = Call("none", FALSE, FALSE, 0)
    /\ ret = Code("none")
    /\ log = <<>>
    /\ deque = <<>>
    /\ aret = [code |-> "not_called", val |-> <<>>]
    /\ hist = NoHist
    /\ script = NoScript
    /\ main = NoMain

\* The call o with outcome r, a being the outcome of the abstract sequence.
Step(o, r, a) ==
    /\ buffer' = r.buffer
    /\ mem' = r.mem
    /\ out' = r.out
    /\ ret' = r.ret
    /\ log' = r.log
    /\ op' = o
    /\ deque' = a.deque
    /\ aret' = [code |-> a.code, val |-> a.val]
    /\ hist' = HistNext(hist, o, buffer, r)

Hooks == {"NULL", "user_hook"}

Call_init ==
    \E hasBuf \in BOOLEAN, hasArena \in BOOLEAN, allocOk \in BOOLEAN,
       data_size \in DataSizes, capacity \in 0..MaxCap,
       enter \in Hooks, exit \in Hooks :
        LET called == hasBuf /\ hasArena
            r == ring_buffer_init(buffer, mem, ZeroItem, hasBuf, data_size, capacity,
                                  enter, exit, hasArena, allocOk)
            o == [name |-> "init", buf |-> hasBuf, ptr |-> FALSE, item |-> 0,
                  arg |-> [data_size |-> data_size, capacity |-> capacity, enter |-> enter,
                           exit |-> exit, arena |-> hasArena, allocOk |-> allocOk]]
        IN /\ allocOk => called
           /\ ~called => (capacity = 0 /\ enter = "NULL" /\ exit = "NULL")
           /\ IF called
              THEN /\ Step(o, [r EXCEPT !.out = ZeroItem], AbsNotCalled(<<>>))
                   /\ ready' = allocOk
              ELSE /\ Step(o, r, AbsNotCalled(deque))
                   /\ ready' = ready
           /\ UNCHANGED <<script, main>>

Call_is_empty ==
    \E hasBuf \in BOOLEAN :
        /\ hasBuf => ready
        /\ Step(Call("is_empty", hasBuf, FALSE, 0),
                ring_buffer_is_empty(buffer, mem, ZeroItem, hasBuf), AbsNotCalled(deque))
        /\ UNCHANGED <<ready, script, main>>

Call_is_full ==
    \E hasBuf \in BOOLEAN :
        /\ hasBuf => ready
        /\ Step(Call("is_full", hasBuf, FALSE, 0),
                ring_buffer_is_full(buffer, mem, ZeroItem, hasBuf), AbsNotCalled(deque))
        /\ UNCHANGED <<ready, script, main>>

Call_size ==
    \E hasBuf \in BOOLEAN :
        /\ hasBuf => ready
        /\ Step(Call("size", hasBuf, FALSE, 0),
                ring_buffer_size(buffer, mem, ZeroItem, hasBuf), AbsNotCalled(deque))
        /\ UNCHANGED <<ready, script, main>>

Call_push_front ==
    \E hasBuf \in BOOLEAN, hasItem \in BOOLEAN, item \in Items :
        /\ hasBuf => ready
        /\ Step(Call("push_front", hasBuf, hasItem, IF hasItem THEN item ELSE 0),
                ring_buffer_push_front(buffer, mem, ZeroItem, hasBuf, hasItem, item),
                IF hasBuf /\ hasItem THEN AbsPushFront(deque, buffer.capacity, item)
                ELSE AbsNotCalled(deque))
        /\ UNCHANGED <<ready, script, main>>

Call_push_back ==
    \E hasBuf \in BOOLEAN, hasItem \in BOOLEAN, item \in Items :
        /\ hasBuf => ready
        /\ Step(Call("push_back", hasBuf, hasItem, IF hasItem THEN item ELSE 0),
                ring_buffer_push_back(buffer, mem, ZeroItem, hasBuf, hasItem, item),
                IF hasBuf /\ hasItem THEN AbsPushBack(deque, buffer.capacity, item)
                ELSE AbsNotCalled(deque))
        /\ UNCHANGED <<ready, script, main>>

Call_pop_front ==
    \E hasBuf \in BOOLEAN, hasOut \in BOOLEAN :
        /\ hasBuf => ready
        /\ Step(Call("pop_front", hasBuf, hasOut, 0),
                ring_buffer_pop_front(buffer, mem, ZeroItem, hasBuf, hasOut),
                IF hasBuf THEN AbsPopFront(deque, hasOut) ELSE AbsNotCalled(deque))
        /\ UNCHANGED <<ready, script, main>>

Call_pop_back ==
    \E hasBuf \in BOOLEAN, hasOut \in BOOLEAN :
        /\ hasBuf => ready
        /\ Step(Call("pop_back", hasBuf, hasOut, 0),
                ring_buffer_pop_back(buffer, mem, ZeroItem, hasBuf, hasOut),
                IF hasBuf THEN AbsPopBack(deque, hasOut) ELSE AbsNotCalled(deque))
        /\ UNCHANGED <<ready, script, main>>

Call_front ==
    \E hasBuf \in BOOLEAN, hasOut \in BOOLEAN :
        /\ hasBuf => ready
        /\ Step(Call("front", hasBuf, hasOut, 0),
                ring_buffer_front(buffer, mem, ZeroItem, hasBuf, hasOut),
                IF hasBuf /\ hasOut THEN AbsFront(deque) ELSE AbsNotCalled(deque))
        /\ UNCHANGED <<ready, script, main>>

Call_back ==
    \E hasBuf \in BOOLEAN, hasOut \in BOOLEAN :
        /\ hasBuf => ready
        /\ Step(Call("back", hasBuf, hasOut, 0),
                ring_buffer_back(buffer, mem, ZeroItem, hasBuf, hasOut),
                IF hasBuf /\ hasOut THEN AbsBack(deque) ELSE AbsNotCalled(deque))
        /\ UNCHANGED <<ready, script, main>>

Call_peek_front ==
    \E hasBuf \in BOOLEAN :
        /\ hasBuf => ready
        /\ Step(Call("peek_front", hasBuf, FALSE, 0),
                ring_buffer_peek_front(buffer, mem, ZeroItem, hasBuf),
                IF hasBuf THEN AbsPeekFront(deque) ELSE AbsNotCalled(deque))
        /\ UNCHANGED <<ready, script, main>>

Call_peek_back ==
    \E hasBuf \in BOOLEAN :
        /\ hasBuf => ready
        /\ Step(Call("peek_back", hasBuf, FALSE, 0),
                ring_buffer_peek_back(buffer, mem, ZeroItem, hasBuf),
                IF hasBuf THEN AbsPeekBack(deque) ELSE AbsNotCalled(deque))
        /\ UNCHANGED <<ready, script, main>>

Call_clear ==
    \E hasBuf \in BOOLEAN :
        /\ hasBuf => ready
        /\ Step(Call("clear", hasBuf, FALSE, 0),
                ring_buffer_clear(buffer, mem, ZeroItem, hasBuf),
                IF hasBuf THEN AbsClear(deque) ELSE AbsNotCalled(deque))
        /\ UNCHANGED <<ready, script, main>>

Next ==
    \/ Call_init
    \/ Call_is_empty
    \/ Call_is_full
    \/ Call_size
    \/ Call_push_front
    \/ Call_push_back
    \/ Call_pop_front
    \/ Call_pop_back
    \/ Call_front
    \/ Call_back
    \/ Call_peek_front
    \/ Call_peek_back
    \/ Call_clear

Spec == Init /\ [][Next]_vars

----------------------------------------------------------------------------
(* The scripted run: init with capacity 3, then four push_back, a          *)
(* pop_front, a push_back and four pop_front, on elements v1..v4.          *)

\* Bound of the scripted run: the elements are 1..MaxVal.
MaxVal == 4

\* The calls of the script and the element each push is given.
ScriptCalls == <<"push_back", "push_back", "push_back", "push_back", "pop_front",
                 "push_back", "pop_front", "pop_front", "pop_front", "pop_front">>
ScriptArg == <<1, 2, 3, 4, 0, 4, 0, 0, 0, 0>>

\* What the script observes of a call: the code, the element delivered, and
\* size, start and slot 0 after the call.
Obs(name, r) ==
    [code |-> r.ret.code,
     out |-> IF name = "pop_front" /\ r.ret.code = RING_BUFFER_OK THEN <<r.out>> ELSE <<>>,
     size |-> r.buffer.size,
     start |-> r.buffer.start,
     slot0 |-> r.mem[0]]

ScenarioInit ==
    /\ buffer = [start |-> 0, size |-> 0, data_size |-> 0, capacity |-> 0,
                 cs_enter |-> "NULL", cs_exit |-> "NULL", data |-> "NULL"]
    /\ mem = <<>>
    /\ ready = FALSE
    /\ out = ZeroItem
    /\ op = Call("none", FALSE, FALSE, 0)
    /\ ret = Code("none")
    /\ log = <<>>
    /\ deque = <<>>
    /\ aret = [code |-> "not_called", val |-> <<>>]
    /\ hist = NoHist
    /\ script \in {[pc |-> 0, vals |-> v, trace |-> <<>>] : v \in [1..4 -> 1..MaxVal]}
    /\ main = NoMain

Scenario_init ==
    \E data_size \in DataSizes, enter \in Hooks, exit \in Hooks :
        LET r == ring_buffer_init(buffer, mem, ZeroItem, TRUE, data_size, 3,
                                  enter, exit, TRUE, TRUE)
            o == [name |-> "init", buf |-> TRUE, ptr |-> FALSE, item |-> 0,
                  arg |-> [data_size |-> data_size, capacity |-> 3, enter |-> enter,
                           exit |-> exit, arena |-> TRUE, allocOk |-> TRUE]]
        IN /\ script.pc = 0
           /\ Step(o, r, AbsNotCalled(<<>>))
           /\ ready' = TRUE
           /\ script' = [script EXCEPT !.pc = 1]
           /\ UNCHANGED main

Scenario_push_back ==
    /\ script.pc \in DOMAIN ScriptCalls
    /\ ScriptCalls[script.pc] = "push_back"
    /\ LET item == script.vals[ScriptArg[script.pc]]
           r == ring_buffer_push_back(buffer, mem, ZeroItem, TRUE, TRUE, item)
       IN /\ Step(Call("push_back", TRUE, TRUE, item), r,
                  AbsPushBack(deque, buffer.capacity, item))
          /\ script' = [script EXCEPT !.pc = @ + 1,
                                      !.trace = Append(@, Obs("push_back", r))]
    /\ UNCHANGED <<ready, main>>

Scenario_pop_front ==
    /\ script.pc \in DOMAIN ScriptCalls
    /\ ScriptCalls[script.pc] = "pop_front"
    /\ LET r == ring_buffer_pop_front(buffer, mem, ZeroItem, TRUE, TRUE)
       IN /\ Step(Call("pop_front", TRUE, TRUE, 0), r, AbsPopFront(deque, TRUE))
          /\ script' = [script EXCEPT !.pc = @ + 1,
                                      !.trace = Append(@, Obs("pop_front", r))]
    /\ UNCHANGED <<ready, main>>

ScenarioNext ==
    \/ Scenario_init
    \/ Scenario_push_back
    \/ Scenario_pop_front

SpecScenario == ScenarioInit /\ [][ScenarioNext]_vars

----------------------------------------------------------------------------
(* Two consecutive calls observed from any state of the buffer: calls that *)
(* bring the buffer to some state, then a first and a second call whose    *)
(* arguments, results and states before and after are recorded.            *)

\* A call with a handle and a non-NULL item or output buffer.
Apply(name, b, m, item) ==
    CASE name = "push_front" -> ring_buffer_push_front(b, m, ZeroItem, TRUE, TRUE, item)
      [] name = "push_back" -> ring_buffer_push_back(b, m, ZeroItem, TRUE, TRUE, item)
      [] name = "pop_front" -> ring_buffer_pop_front(b, m, ZeroItem, TRUE, TRUE)
      [] name = "pop_back" -> ring_buffer_pop_back(b, m, ZeroItem, TRUE, TRUE)
      [] name = "front" -> ring_buffer_front(b, m, ZeroItem, TRUE, TRUE)
      [] name = "back" -> ring_buffer_back(b, m, ZeroItem, TRUE, TRUE)
      [] name = "peek_front" -> ring_buffer_peek_front(b, m, ZeroItem, TRUE)
      [] name = "peek_back" -> ring_buffer_peek_back(b, m, ZeroItem, TRUE)
      [] name = "clear" -> ring_buffer_clear(b, m, ZeroItem, TRUE)
      [] name = "is_empty" -> ring_buffer_is_empty(b, m, ZeroItem, TRUE)
      [] name = "is_full" -> ring_buffer_is_full(b, m, ZeroItem, TRUE)
      [] name = "size" -> ring_buffer_size(b, m, ZeroItem, TRUE)

\* The functions that take an item or an output buffer.
TakesPointer == {"push_front", "push_back", "pop_front", "pop_back", "front", "back"}

\* What is recorded of a call: the call, the handle and memory before it,
\* and its outcome.
PairObs(name, item, b, m, r) ==
    [op |-> Call(name, TRUE, name \in TakesPointer, item),
     pre |-> [buffer |-> b, mem |-> m],
     buffer |-> r.buffer, mem |-> r.mem, out |-> r.out, ret |-> r.ret]

\* The call o with outcome r; the abstract sequence is not run.
PairStep(o, r) ==
    /\ buffer' = r.buffer
    /\ mem' = r.mem
    /\ out' = r.out
    /\ ret' = r.ret
    /\ log' = r.log
    /\ op' = o
    /\ UNCHANGED <<deque, aret, hist, main>>

\* ring_buffer_init with both hooks given or both NULL, before any other call.
Pair_init ==
    \E data_size \in DataSizes, capacity \in 0..MaxCap, hook \in Hooks :
        LET r == ring_buffer_init(buffer, mem, ZeroItem, TRUE, data_size, capacity,
                                  hook, hook, TRUE, TRUE)
            o == [name |-> "init", buf |-> TRUE, ptr |-> FALSE, item |-> 0,
                  arg |-> [data_size |-> data_size, capacity |-> capacity, enter |-> hook,
                           exit |-> hook, arena |-> TRUE, allocOk |-> TRUE]]
        IN /\ ~ready
           /\ PairStep(o, r)
           /\ ready' = TRUE
           /\ UNCHANGED script

\* A push or a pop_front that brings the buffer to its state; not recorded.
Pair_fill ==
    \E name \in {"push_front", "push_back", "pop_front"}, item \in Items :
        LET r == Apply(name, buffer, mem, item)
        IN /\ ready
           /\ script.pc = 0
           /\ name = "pop_front" => item = 0
           /\ buffer' = r.buffer
           /\ mem' = r.mem
           /\ UNCHANGED <<ready, out, op, ret, log, deque, aret, hist, script, main>>

FirstCalls == {"push_front", "push_back", "clear", "front", "back"}
SecondCalls == {"push_front", "push_back", "pop_front", "pop_back", "front", "back",
                "peek_front", "peek_back", "clear", "is_empty", "is_full", "size"}

Pair_first ==
    \E name \in FirstCalls, item \in Items :
        LET r == Apply(name, buffer, mem, item)
        IN /\ ready
           /\ script.pc = 0
           /\ name \notin {"push_front", "push_back"} => item = 0
           /\ PairStep(Call(name, TRUE, name \in TakesPointer, item), r)
           /\ script' = [script EXCEPT !.pc = 1,
                                       !.trace = <<PairObs(name, item, buffer, mem, r)>>]
           /\ UNCHANGED ready

Pair_second ==
    \E name \in SecondCalls, item \in Items :
        LET r == Apply(name, buffer, mem, item)
        IN /\ script.pc = 1
           /\ Len(script.trace) = 1
           /\ name \notin {"push_front", "push_back"} => item = 0
           /\ PairStep(Call(name, TRUE, name \in TakesPointer, item), r)
           /\ script' = [script EXCEPT !.pc = 2,
                                       !.trace = Append(@, PairObs(name, item, buffer, mem, r))]
           /\ UNCHANGED ready

PairNext ==
    \/ Pair_init
    \/ Pair_fill
    \/ Pair_first
    \/ Pair_second

SpecPair == Init /\ [][PairNext]_vars

----------------------------------------------------------------------------
(* SpecWord: the index arithmetic at the width of size_t.                  *)
(* start, size, capacity and cur are size_t; their width is IndexBits      *)
(* here, and every sum and difference the code forms is taken modulo       *)
(* 2^IndexBits.  The element size argument is a size_t that init stores    *)
(* in a uint16_t field; element sizes keep their real values.              *)

\* The width of size_t in this specification.
IndexBits == 2

\* A value of type size_t.
SizeT(x) == x % (2 ^ IndexBits)

\* size_t cur = start + size; if (cur >= capacity) cur -= capacity;
PushBackIndex_size_t(b) ==
    LET cur == SizeT(b.start + b.size)
    IN IF cur >= b.capacity THEN SizeT(cur - b.capacity) ELSE cur

\* size_t cur = start + size - 1; if (cur >= capacity) cur -= capacity;
BackIndex_size_t(b) ==
    LET cur == SizeT(SizeT(b.start + b.size) - 1)
    IN IF cur >= b.capacity THEN SizeT(cur - b.capacity) ELSE cur

\* The functions that form start + size, called with a handle and a
\* non-NULL argument.
ring_buffer_push_back_size_t(b, m, o, item) ==
    IF SizeAtCapacity(b)
    THEN Res(b, m, o, Code(RING_BUFFER_FULL), <<"cs_enter", "rd_size", "cs_exit">>)
    ELSE LET cur == PushBackIndex_size_t(b)
             b1 == [b EXCEPT !.size = SizeT(b.size + 1)]
         IN Res(b1, Store(m, cur, item), o, Code(RING_BUFFER_OK),
                <<"cs_enter", "rd_size", "rd_start", "wr_mem", "wr_size", "cs_exit">>)

ring_buffer_pop_back_size_t(b, m, o) ==
    IF SizeIsZero(b)
    THEN Res(b, m, o, Code(RING_BUFFER_EMPTY), <<"cs_enter", "rd_size", "cs_exit">>)
    ELSE Res([b EXCEPT !.size = SizeT(b.size - 1)], m, Load(m, BackIndex_size_t(b)),
             Code(RING_BUFFER_OK),
             <<"cs_enter", "rd_size", "rd_start", "rd_mem", "wr_size", "cs_exit">>)

ring_buffer_back_size_t(b, m, o) ==
    IF SizeIsZero(b)
    THEN Res(b, m, o, Code(RING_BUFFER_EMPTY), <<"cs_enter", "rd_size", "cs_exit">>)
    ELSE Res(b, m, Load(m, BackIndex_size_t(b)), Code(RING_BUFFER_OK),
             <<"cs_enter", "rd_size", "rd_start", "rd_mem", "cs_exit">>)

ring_buffer_peek_back_size_t(b, m, o) ==
    IF SizeIsZero(b)
    THEN Res(b, m, o, Ref(NullRef), <<"cs_enter", "rd_size", "cs_exit">>)
    ELSE Res(b, m, o, Ref(BackIndex_size_t(b) * b.data_size),
             <<"cs_enter", "rd_size", "rd_start", "cs_exit">>)

\* The element sizes given to ring_buffer_init: sizeof(int), and the size
\* of a struct of 64 KiB and an int.
WordDataSizes == {4, 65540}

\* The call o with outcome r.
WordStep(o, r) ==
    /\ PairStep(o, r)
    /\ UNCHANGED script

\* ring_buffer_init with any capacity a size_t holds; the allocation succeeds.
Word_init ==
    \E data_size \in WordDataSizes, capacity \in 1..(2 ^ IndexBits - 1) :
        LET r == ring_buffer_init(buffer, mem, ZeroItem, TRUE, data_size, capacity,
                                  "NULL", "NULL", TRUE, TRUE)
            o == [name |-> "init", buf |-> TRUE, ptr |-> FALSE, item |-> 0,
                  arg |-> [data_size |-> data_size, capacity |-> capacity, enter |-> "NULL",
                           exit |-> "NULL", arena |-> TRUE, allocOk |-> TRUE]]
        IN /\ ~ready
           /\ WordStep(o, r)
           /\ ready' = TRUE

\* push_front and pop_front form no sum of start and size: start + 1 and
\* size + 1 are at most capacity.
Word_push_front ==
    \E item \in Items :
        /\ ready
        /\ WordStep(Call("push_front", TRUE, TRUE, item),
                    ring_buffer_push_front(buffer, mem, ZeroItem, TRUE, TRUE, item))
        /\ UNCHANGED ready

Word_pop_front ==
    /\ ready
    /\ WordStep(Call("pop_front", TRUE, TRUE, 0),
                ring_buffer_pop_front(buffer, mem, ZeroItem, TRUE, TRUE))
    /\ UNCHANGED ready

Word_push_back ==
    \E item \in Items :
        /\ ready
        /\ WordStep(Call("push_back", TRUE, TRUE, item),
                    ring_buffer_push_back_size_t(buffer, mem, ZeroItem, item))
        /\ UNCHANGED ready

Word_pop_back ==
    /\ ready
    /\ WordStep(Call("pop_back", TRUE, TRUE, 0), ring_buffer_pop_back_size_t(buffer, mem, ZeroItem))
    /\ UNCHANGED ready

Word_back ==
    /\ ready
    /\ WordStep(Call("back", TRUE, TRUE, 0), ring_buffer_back_size_t(buffer, mem, ZeroItem))
    /\ UNCHANGED ready

Word_peek_back ==
    /\ ready
    /\ WordStep(Call("peek_back", TRUE, FALSE, 0), ring_buffer_peek_back_size_t(buffer, mem, ZeroItem))
    /\ UNCHANGED ready

WordNext ==
    \/ Word_init
    \/ Word_push_front
    \/ Word_pop_front
    \/ Word_push_back
    \/ Word_pop_back
    \/ Word_back
    \/ Word_peek_back

SpecWord == Init /\ [][WordNext]_vars

----------------------------------------------------------------------------
(* SpecFields: the handle as the unit tests prepare it.                    *)
(* The tests of ring-buffer.h initialize a handle and then assign its      *)
(* start, size and capacity fields and the elements of its block directly  *)
(* before they call the function under test.                               *)

\* ring_buffer_init with a capacity of 1..MaxCap; the allocation succeeds.
Fields_init ==
    \E data_size \in DataSizes, capacity \in 1..MaxCap :
        LET r == ring_buffer_init(buffer, mem, ZeroItem, TRUE, data_size, capacity,
                                  "NULL", "NULL", TRUE, TRUE)
            o == [name |-> "init", buf |-> TRUE, ptr |-> FALSE, item |-> 0,
                  arg |-> [data_size |-> data_size, capacity |-> capacity, enter |-> "NULL",
                           exit |-> "NULL", arena |-> TRUE, allocOk |-> TRUE]]
        IN /\ ~ready
           /\ PairStep(o, r)
           /\ ready' = TRUE
           /\ UNCHANGED script

\* point_buf.size = ...; point_buf.start = ...; point_buf.capacity = ...;
\* ((Point *)point_buf.data)[k] = dot;  The capacity stays within the block
\* and start + size - 1 below twice the capacity.
Fields_assign ==
    \E capacity \in 1..MaxCap, start \in 0..(2 * MaxCap), size \in 0..MaxCap,
       k \in 0..(MaxCap - 1), item \in Items :
        /\ ready
        /\ op.name = "init"
        /\ capacity - 1 \in DOMAIN mem
        /\ k \in DOMAIN mem
        /\ start + size - 1 < 2 * capacity
        /\ buffer' = [buffer EXCEPT !.start = start, !.size = size, !.capacity = capacity]
        /\ mem' = [mem EXCEPT ![k] = item]
        /\ op' = Call("assign", TRUE, TRUE, item)
        /\ UNCHANGED <<ready, out, ret, log, deque, aret, hist, script, main>>

Fields_back ==
    /\ ready
    /\ op.name = "assign"
    /\ PairStep(Call("back", TRUE, TRUE, 0), ring_buffer_back(buffer, mem, ZeroItem, TRUE, TRUE))
    /\ UNCHANGED <<ready, script>>

Fields_peek_back ==
    /\ ready
    /\ op.name = "assign"
    /\ PairStep(Call("peek_back", TRUE, FALSE, 0), ring_buffer_peek_back(buffer, mem, ZeroItem, TRUE))
    /\ UNCHANGED <<ready, script>>

FieldsNext ==
    \/ Fields_init
    \/ Fields_assign
    \/ Fields_back
    \/ Fields_peek_back

SpecFields == Init /\ [][FieldsNext]_vars

----------------------------------------------------------------------------
(* Derived notions used by the properties *)

\* The slots at start, start+1, ..., start+size-1 modulo capacity.
Contents(b, m) == [i \in 1..b.size |-> m[(b.start + i - 1) % b.capacity]]

\* The element the last call handed to its caller, if any.
Returned ==
    IF op.name \in {"pop_front", "pop_back", "front", "back"}
       /\ ret.code = RING_BUFFER_OK /\ op.ptr
    THEN <<out>>
    ELSE IF op.name \in {"peek_front", "peek_back"} /\ ret.ref # NullRef
    THEN <<mem[ret.ref \div buffer.data_size]>>
    ELSE <<>>

TypeOK ==
    /\ ready \in BOOLEAN
    /\ buffer.capacity \in 0..MaxCap
    /\ buffer.data_size \in DataSizes \cup {0}

----------------------------------------------------------------------------
(* The main flow and an interrupt handler on one handle.  A call of the    *)
(* main flow runs statement by statement; the interrupt handler runs a     *)
(* whole call between two statements of the main flow, unless the main     *)
(* flow is between cs_enter and cs_exit and the hooks mask interrupts.     *)

\* Bound of the interleaved runs: the largest capacity given to ring_buffer_init.
MaxIrqCap == 2

\* The hook h masks interrupts until the matching exit: the user's hooks do
\* (README: __disable_irq / __enable_irq), ring_buffer_cs_dummy does not.
HookMasks_always(h) == TRUE
HookMasks(h) == h = "user_hook"

\* The statements of each function after its NULL checks, in source order.
\* A failed if_full / if_empty goes to the last statement.
stmts_push_front ==
    <<"cs_enter", "if_full", "wrap_start_down", "dec_start", "inc_size", "copy_in_start", "cs_exit">>
\* ring_buffer_push_back that ends by waiting until the buffer is not full.
stmts_push_back_wait ==
    <<"cs_enter", "cur_push", "copy_in_cur", "inc_size", "cs_exit", "if_full">>
stmts_push_back_size_first ==
    <<"cs_enter", "if_full", "cur_push", "inc_size", "copy_in_cur", "cs_exit">>
stmts_push_back_late_enter ==
    <<"if_full", "cs_enter", "cur_push", "copy_in_cur", "inc_size", "cs_exit">>
stmts_push_back ==
    <<"cs_enter", "if_full", "cur_push", "copy_in_cur", "inc_size", "cs_exit">>
stmts_pop_front ==
    <<"cs_enter", "if_empty", "copy_out_start", "inc_start", "wrap_start_up", "dec_size", "cs_exit">>
stmts_pop_back == <<"cs_enter", "if_empty", "cur_back", "copy_out_cur", "dec_size", "cs_exit">>
stmts_front == <<"cs_enter", "if_empty", "copy_out_start", "cs_exit">>
stmts_back == <<"cs_enter", "if_empty", "cur_back", "copy_out_cur", "cs_exit">>
stmts_peek_front == <<"cs_enter", "if_empty", "ref_start", "cs_exit">>
stmts_peek_back == <<"cs_enter", "if_empty", "cur_back", "ref_cur", "cs_exit">>
stmts_clear == <<"cs_enter", "zero_start", "zero_size", "cs_exit">>
stmts_is_empty == <<"ret_is_empty">>
stmts_is_full == <<"ret_is_full">>
stmts_size == <<"ret_size">>

Program(name) ==
    CASE name = "push_front" -> stmts_push_front
      [] name = "push_back" -> stmts_push_back
      [] name = "pop_front" -> stmts_pop_front
      [] name = "pop_back" -> stmts_pop_back
      [] name = "front" -> stmts_front
      [] name = "back" -> stmts_back
      [] name = "peek_front" -> stmts_peek_front
      [] name = "peek_back" -> stmts_peek_back
      [] name = "clear" -> stmts_clear
      [] name = "is_empty" -> stmts_is_empty
      [] name = "is_full" -> stmts_is_full
      [] name = "size" -> stmts_size

\* What a function returns unless a statement says otherwise.
InitialRet(name) ==
    IF name \in {"peek_front", "peek_back"} THEN Ref(NullRef)
    ELSE IF name \in {"is_empty", "is_full", "size"} THEN Code("none")
    ELSE Code(RING_BUFFER_OK)

\* start and size index existing slots.
WellFormed(b) ==
    /\ b.capacity >= 1
    /\ b.start \in 0..(b.capacity - 1)
    /\ b.size \in 0..b.capacity

\* One statement s of the call t of the main flow on handle b and memory m.
\* size_t arithmetic: start - 1 and size - 1 at 0 wrap to SIZE_MAX, written
\* -1; a copy outside the block is undefined behaviour (t.ub).
ExecStmt(s, b, m, t) ==
    LET nxt == [t EXCEPT !.pc = @ + 1]
        last == Len(Program(t.name))
        St(b1, m1, t1) == [buffer |-> b1, mem |-> m1, main |-> t1]
    IN CASE s = "cs_enter" -> St(b, m, [nxt EXCEPT !.in_cs = TRUE])
         [] s = "cs_exit" -> St(b, m, [nxt EXCEPT !.in_cs = FALSE])
         [] s = "if_full" ->
                IF SizeAtCapacity(b)
                THEN St(b, m, [t EXCEPT !.pc = last, !.ret = Code(RING_BUFFER_FULL)])
                ELSE St(b, m, nxt)
         [] s = "if_empty" ->
                IF SizeIsZero(b)
                THEN St(b, m, [t EXCEPT !.pc = last,
                                        !.ret = IF t.name \in {"peek_front", "peek_back"}
                                                THEN Ref(NullRef)
                                                ELSE Code(RING_BUFFER_EMPTY)])
                ELSE St(b, m, nxt)
         [] s = "wrap_start_down" ->
                St(IF b.start = 0 THEN [b EXCEPT !.start = b.capacity] ELSE b, m, nxt)
         [] s = "dec_start" -> St([b EXCEPT !.start = @ - 1], m, nxt)
         [] s = "inc_start" -> St([b EXCEPT !.start = @ + 1], m, nxt)
         [] s = "wrap_start_up" ->
                St(IF b.start >= b.capacity THEN [b EXCEPT !.start = 0] ELSE b, m, nxt)
         [] s = "inc_size" -> St([b EXCEPT !.size = @ + 1], m, nxt)
         [] s = "dec_size" -> St([b EXCEPT !.size = @ - 1], m, nxt)
         [] s = "zero_start" -> St([b EXCEPT !.start = 0], m, nxt)
         [] s = "zero_size" -> St([b EXCEPT !.size = 0], m, nxt)
         [] s = "cur_push" -> St(b, m, [nxt EXCEPT !.cur = PushBackIndex(b)])
         [] s = "cur_back" -> St(b, m, [nxt EXCEPT !.cur = BackIndex(b)])
         [] s = "copy_in_start" ->
                IF b.start \in DOMAIN m
                THEN St(b, Store(m, b.start, t.item), nxt)
                ELSE St(b, m, [nxt EXCEPT !.ub = TRUE])
         [] s = "copy_in_cur" ->
                IF t.cur \in DOMAIN m
                THEN St(b, Store(m, t.cur, t.item), nxt)
                ELSE St(b, m, [nxt EXCEPT !.ub = TRUE])
         [] s = "copy_out_start" ->
                IF b.start \in DOMAIN m
                THEN St(b, m, [nxt EXCEPT !.out = <<Load(m, b.start)>>])
                ELSE St(b, m, [nxt EXCEPT !.ub = TRUE])
         [] s = "copy_out_cur" ->
                IF t.cur \in DOMAIN m
                THEN St(b, m, [nxt EXCEPT !.out = <<Load(m, t.cur)>>])
                ELSE St(b, m, [nxt EXCEPT !.ub = TRUE])
         [] s = "ref_start" -> St(b, m, [nxt EXCEPT !.ret = Ref(b.start * b.data_size)])
         [] s = "ref_cur" -> St(b, m, [nxt EXCEPT !.ret = Ref(t.cur * b.data_size)])
         [] s = "ret_is_empty" -> St(b, m, [nxt EXCEPT !.ret = Flag(b.size = 0)])
         [] s = "ret_is_full" -> St(b, m, [nxt EXCEPT !.ret = Flag(b.size >= b.capacity)])
         [] s = "ret_size" -> St(b, m, [nxt EXCEPT !.ret = Count(b.size)])

\* The statement at which a call of the main flow takes effect on the
\* abstract sequence: its first read or write of size or start.
LinPoints == {"if_full", "if_empty", "zero_start", "ret_is_empty", "ret_is_full", "ret_size"}

\* The call on the abstract sequence; a query returns what it reports.
AbsCall(name, d, cap, item) ==
    CASE name = "push_front" -> AbsPushFront(d, cap, item)
      [] name = "push_back" -> AbsPushBack(d, cap, item)
      [] name = "pop_front" -> AbsPopFront(d, TRUE)
      [] name = "pop_back" -> AbsPopBack(d, TRUE)
      [] name = "front" -> AbsFront(d)
      [] name = "back" -> AbsBack(d)
      [] name = "peek_front" -> AbsPeekFront(d)
      [] name = "peek_back" -> AbsPeekBack(d)
      [] name = "clear" -> AbsClear(d)
      [] name = "is_empty" -> Abs(d, "none", <<d = <<>>>>)
      [] name = "is_full" -> Abs(d, "none", <<Len(d) >= cap>>)
      [] name = "size" -> Abs(d, "none", <<Len(d)>>)

\* What the finished call t of the main flow handed to its caller.
MainReturned(t, b, m) ==
    IF t.name \in {"pop_front", "pop_back", "front", "back"}
    THEN IF t.ret.code = RING_BUFFER_OK THEN t.out ELSE <<>>
    ELSE IF t.name \in {"peek_front", "peek_back"}
    THEN IF t.ret.ref # NullRef /\ b.data_size > 0 /\ (t.ret.ref \div b.data_size) \in DOMAIN m
         THEN <<m[t.ret.ref \div b.data_size]>>
         ELSE <<>>
    ELSE IF t.name = "is_empty" \/ t.name = "is_full" THEN <<t.ret.flag>>
    ELSE IF t.name = "size" THEN <<t.ret.count>>
    ELSE <<>>

\* The finished call t and the state it leaves differ from the abstract run.
Differs(t, b, m, d) ==
    \/ ~WellFormed(b)
    \/ Contents(b, m) # d
    \/ t.ret.code # t.aret.code
    \/ MainReturned(t, b, m) # t.aret.val

\* The main flow is inside a call: some statement is still to run.
Running == main.name # "none" /\ main.pc \in DOMAIN Program(main.name)

\* The run is over: undefined behaviour, or a result no abstract run gives.
Halted == main.ub \/ main.diverged

\* Interrupts are masked.
Masked == main.in_cs /\ HookMasks(buffer.cs_enter)

IrqInit ==
    /\ buffer = [start |-> 0, size |-> 0, data_size |-> 0, capacity |-> 0,
                 cs_enter |-> "NULL", cs_exit |-> "NULL", data |-> "NULL"]
    /\ mem = <<>>
    /\ ready = FALSE
    /\ out = ZeroItem
    /\ op = Call("none", FALSE, FALSE, 0)
    /\ ret = Code("none")
    /\ log = <<>>
    /\ deque = <<>>
    /\ aret = [code |-> "not_called", val |-> <<>>]
    /\ hist = NoHist
    /\ script = NoScript
    /\ main = NoMain

\* ring_buffer_init with both hooks given or both NULL, before any other call.
Irq_init ==
    \E data_size \in DataSizes, capacity \in 1..MaxIrqCap, hook \in Hooks :
        LET r == ring_buffer_init(buffer, mem, ZeroItem, TRUE, data_size, capacity,
                                  hook, hook, TRUE, TRUE)
            o == [name |-> "init", buf |-> TRUE, ptr |-> FALSE, item |-> 0,
                  arg |-> [data_size |-> data_size, capacity |-> capacity, enter |-> hook,
                           exit |-> hook, arena |-> TRUE, allocOk |-> TRUE]]
        IN /\ ~ready
           /\ Step(o, r, AbsNotCalled(<<>>))
           /\ ready' = TRUE
           /\ UNCHANGED <<script, main>>

MainOps == {"push_front", "push_back", "pop_front", "pop_back", "front", "back",
            "peek_front", "peek_back", "clear", "is_empty", "is_full", "size"}

\* The main flow calls a function with a handle and a non-NULL argument.
Main_call ==
    \E name \in MainOps, item \in Items :
        /\ ready
        /\ ~Running
        /\ ~Halted
        /\ name \notin {"push_front", "push_back"} => item = 0
        /\ main' = [NoMain EXCEPT !.name = name, !.pc = 1, !.item = item,
                                  !.ret = InitialRet(name)]
        /\ UNCHANGED <<buffer, mem, ready, out, op, ret, log, deque, aret, hist, script>>

\* The main flow runs the next statement of its call.
Main_step ==
    /\ Running
    /\ ~Halted
    /\ LET s == Program(main.name)[main.pc]
           x == ExecStmt(s, buffer, mem, main)
           a == IF s \in LinPoints
                THEN AbsCall(main.name, deque, buffer.capacity, main.item)
                ELSE Abs(deque, main.aret.code, main.aret.val)
           t == [x.main EXCEPT !.aret = [code |-> a.code, val |-> a.val]]
           done == t.pc \notin DOMAIN Program(main.name)
       IN /\ buffer' = x.buffer
          /\ mem' = x.mem
          /\ deque' = a.deque
          /\ main' = [t EXCEPT !.diverged = done /\ ~t.ub /\ Differs(t, x.buffer, x.mem, a.deque)]
    /\ UNCHANGED <<ready, out, op, ret, log, aret, hist, script>>

IsrOps == {"push_front", "push_back", "pop_front", "pop_back", "clear"}

\* The whole call of the interrupt handler.
IsrApply(name, b, m, item) ==
    CASE name = "push_front" -> ring_buffer_push_front(b, m, ZeroItem, TRUE, TRUE, item)
      [] name = "push_back" -> ring_buffer_push_back(b, m, ZeroItem, TRUE, TRUE, item)
      [] name = "pop_front" -> ring_buffer_pop_front(b, m, ZeroItem, TRUE, TRUE)
      [] name = "pop_back" -> ring_buffer_pop_back(b, m, ZeroItem, TRUE, TRUE)
      [] name = "clear" -> ring_buffer_clear(b, m, ZeroItem, TRUE)

\* The slot a push of the interrupt handler writes.
IsrSlot(name, b) ==
    IF name = "push_back" THEN PushBackIndex(b)
    ELSE IF name = "push_front" THEN PushFrontStart(b)
    ELSE 0 - 1

\* An interrupt: the handler runs one push, pop or clear to its end.  On a
\* handle whose start or size the main flow has left outside the block the
\* handler's accesses are undefined.  main keeps the last call of the main
\* flow until the next call of either side.
Isr_call ==
    \E name \in IsrOps, item \in Items :
        /\ ready
        /\ ~Halted
        /\ ~Masked
        /\ name \notin {"push_front", "push_back"} => item = 0
        /\ IF WellFormed(buffer)
           THEN LET r == IsrApply(name, buffer, mem, item)
                    a == AbsCall(name, deque, buffer.capacity, item)
                    val == IF name \in {"pop_front", "pop_back"} /\ r.ret.code = RING_BUFFER_OK
                           THEN <<r.out>> ELSE <<>>
                    inside == Running
                IN /\ buffer' = r.buffer
                   /\ mem' = r.mem
                   /\ deque' = a.deque
                   /\ main' = [(IF inside THEN main ELSE NoMain) EXCEPT
                                  !.diverged = r.ret.code # a.code \/ val # a.val,
                                  !.isr = IF inside
                                          THEN [name |-> name, pc |-> main.pc,
                                                slot |-> IsrSlot(name, buffer),
                                                code |-> r.ret.code]
                                          ELSE @]
           ELSE /\ main' = [main EXCEPT !.ub = TRUE]
                /\ UNCHANGED <<buffer, mem, deque>>
        /\ UNCHANGED <<ready, out, op, ret, log, aret, hist, script>>

IrqNext ==
    \/ Irq_init
    \/ Main_call
    \/ Main_step
    \/ Isr_call

SpecIrq == IrqInit /\ [][IrqNext]_vars

\* SpecLive: the main flow alone.  A call in progress runs its next
\* statement: the processor goes on and both hooks return.
LiveNext ==
    \/ Irq_init
    \/ Main_call
    \/ Main_step

SpecLive == IrqInit /\ [][LiveNext]_vars /\ WF_vars(Main_step)

----------------------------------------------------------------------------
(* Properties *)

\* C1: in every state reached from a successful init by any sequence of
\* calls, successful or failed, 0 <= size <= capacity.
C1_SizeWithinCapacity ==
    ready => (0 <= buffer.size /\ buffer.size <= buffer.capacity)

\* A push has filled a buffer of capacity at least 2.
C1_Witness ==
    /\ ready
    /\ op.name \in {"push_front", "push_back"}
    /\ ret.code = RING_BUFFER_OK
    /\ buffer.capacity >= 2
    /\ buffer.size = buffer.capacity

\* C2: for every capacity init accepts, in every state reached from a
\* successful init, 0 <= start < capacity.
C2_StartBelowCapacity ==
    ready => (0 <= buffer.start /\ buffer.start < buffer.capacity)

\* C3: after every call the abstract sequence is the slots start, start+1,
\* ..., start+size-1 modulo capacity, and the call returned the code and the
\* element the abstract sequence returned.
C3_Refinement ==
    ready =>
        /\ Contents(buffer, mem) = deque
        /\ aret.code # "not_called" => (ret.code = aret.code /\ Returned = aret.val)

\* A push_front onto a non-empty buffer has wrapped start to the last slot,
\* and the two first elements differ.
C3_Witness ==
    /\ ready
    /\ op.name = "push_front"
    /\ ret.code = RING_BUFFER_OK
    /\ buffer.start = buffer.capacity - 1
    /\ buffer.size >= 2
    /\ deque[1] # deque[2]

\* C4: push_back of e1..en onto an empty buffer followed by pop_front calls
\* returns e1, e2, ..., en in that order, whatever start was.
C4_FifoOrder ==
    hist.phase = "pop_front" => <<out>> = hist.expect

\* All of n = capacity >= 3 elements, pushed from a start other than 0, have
\* been popped from the front.
C4_Witness ==
    /\ hist.phase = "pop_front"
    /\ hist.pending = <<>>
    /\ hist.n = buffer.capacity
    /\ hist.n >= 3
    /\ hist.start0 > 0

\* C5: push_back of e1..en onto an empty buffer followed by pop_back calls
\* returns en, ..., e1, whatever start was.
C5_LifoOrder ==
    hist.phase = "pop_back" => <<out>> = hist.expect

\* All of n = capacity >= 3 elements, pushed from a start other than 0, have
\* been popped from the back.
C5_Witness ==
    /\ hist.phase = "pop_back"
    /\ hist.pending = <<>>
    /\ hist.n = buffer.capacity
    /\ hist.n >= 3
    /\ hist.start0 > 0

\* C6: a push with a handle and an item on a buffer with size >= capacity
\* returns Full and leaves the handle (start, size, capacity, data) and
\* every slot unchanged.
C6_FullPushNoEffect ==
    [][(/\ op'.name \in {"push_front", "push_back"}
        /\ op'.buf
        /\ op'.ptr
        /\ buffer.size >= buffer.capacity)
       => (/\ ret'.code = RING_BUFFER_FULL
           /\ buffer' = buffer
           /\ mem' = mem)]_vars

\* A push of a non-zero item was refused by a full buffer of capacity >= 2
\* whose slots are all zero.
C6_Witness ==
    /\ op.name \in {"push_front", "push_back"}
    /\ op.buf
    /\ op.ptr
    /\ op.item # ZeroItem
    /\ ret.code = RING_BUFFER_FULL
    /\ buffer.capacity >= 2
    /\ \A i \in DOMAIN mem : mem[i] = ZeroItem

\* C7: pop_front, pop_back, front and back on a buffer with size = 0 (front
\* and back with an output buffer) return Empty and leave start, size, every
\* slot and the output buffer unchanged.
C7_EmptyNoEffect ==
    [][(/\ op'.buf
        /\ buffer.size = 0
        /\ \/ op'.name \in {"pop_front", "pop_back"}
           \/ op'.name \in {"front", "back"} /\ op'.ptr)
       => (/\ ret'.code = RING_BUFFER_EMPTY
           /\ buffer' = buffer
           /\ mem' = mem
           /\ out' = ZeroItem)]_vars

\* front was refused by an empty buffer whose slot at start holds a stale
\* non-zero element.
C7_Witness ==
    /\ op.name = "front"
    /\ op.buf
    /\ op.ptr
    /\ ret.code = RING_BUFFER_EMPTY
    /\ buffer.start > 0
    /\ mem[buffer.start] # ZeroItem

\* What a function returns for a NULL handle.
NullHandleResult(name, r) ==
    /\ name \in {"init", "push_front", "push_back", "pop_front", "pop_back",
                 "front", "back", "clear"} => r.code = RING_BUFFER_NULL_POINTER
    /\ name = "is_empty" => r.flag = TRUE
    /\ name = "is_full" => r.flag = FALSE
    /\ name = "size" => r.count = 0
    /\ name \in {"peek_front", "peek_back"} => r.ref = NullRef

\* C8: every function called with a NULL handle reports NullReference, or
\* its safe default, without calling a hook or reading anything, and leaves
\* the existing handle and its memory as they were.
C8_NullHandle ==
    [][(~op'.buf /\ op'.name # "none")
       => (/\ NullHandleResult(op'.name, ret')
           /\ log' = <<>>
           /\ buffer' = buffer
           /\ mem' = mem
           /\ ready' = ready)]_vars

\* clear(NULL) while an initialized handle holds elements away from slot 0.
C8_Witness ==
    /\ op.name = "clear"
    /\ ~op.buf
    /\ ret.code = RING_BUFFER_NULL_POINTER
    /\ ready
    /\ buffer.start > 0
    /\ buffer.size > 0

\* C9: a push with a NULL item and front/back with a NULL output buffer
\* report NullReference in every state of the buffer, full and empty
\* included, without entering the critical section and without changing
\* start, size or any slot.
C9_NullArgument ==
    [][(/\ op'.buf
        /\ ~op'.ptr
        /\ op'.name \in {"push_front", "push_back", "front", "back"})
       => (/\ ret'.code = RING_BUFFER_NULL_POINTER
           /\ \A i \in DOMAIN log' : log'[i] \notin {"cs_enter", "cs_exit"}
           /\ buffer' = buffer
           /\ mem' = mem)]_vars

\* push_front with a NULL item on a full buffer.
C9_Witness ==
    /\ op.name = "push_front"
    /\ op.buf
    /\ ~op.ptr
    /\ ret.code = RING_BUFFER_NULL_POINTER
    /\ buffer.capacity >= 1
    /\ buffer.size = buffer.capacity

\* C10: pop_front and pop_back with a NULL output buffer on a non-empty
\* buffer return Ok, take one off size, and pop_front moves start on by one
\* modulo capacity, as with an output buffer; pop_back leaves start alone.
C10_PopWithoutOut ==
    [][(/\ op'.buf
        /\ ~op'.ptr
        /\ op'.name \in {"pop_front", "pop_back"}
        /\ buffer.size > 0)
       => (/\ ret'.code = RING_BUFFER_OK
           /\ buffer'.size = buffer.size - 1
           /\ op'.name = "pop_front" =>
                  /\ buffer'.start = (buffer.start + 1) % buffer.capacity
                  /\ buffer' = ring_buffer_pop_front(buffer, mem, ZeroItem, TRUE, TRUE).buffer
           /\ op'.name = "pop_back" =>
                  /\ buffer'.start = buffer.start
                  /\ buffer' = ring_buffer_pop_back(buffer, mem, ZeroItem, TRUE, TRUE).buffer
           /\ mem' = mem)]_vars

\* pop_front with a NULL output buffer has wrapped start from the last slot
\* to slot 0 and left elements behind.
C10_Witness ==
    /\ op.name = "pop_front"
    /\ op.buf
    /\ ~op.ptr
    /\ ret.code = RING_BUFFER_OK
    /\ buffer.capacity >= 2
    /\ buffer.start = 0
    /\ buffer.size >= 1

\* C11: when init reports NullReference because the arena cannot satisfy
\* the request, the handle is left exactly as it was before the call (start,
\* size, capacity, data_size, hooks and data keep their values).
C11_InitFailureLeavesHandle ==
    [][(/\ op'.name = "init"
        /\ op'.buf
        /\ op'.arg.arena
        /\ ~op'.arg.allocOk)
       => (/\ ret'.code = RING_BUFFER_NULL_POINTER
           /\ buffer' = buffer)]_vars

\* The functions that bracket their work with the hooks.
Guarded == {"push_front", "push_back", "pop_front", "pop_back", "front", "back",
            "peek_front", "peek_back", "clear"}

\* The call o passes the NULL checks of its function.
PassesNullChecks(o) ==
    /\ o.buf
    /\ o.name \in {"push_front", "push_back", "front", "back"} => o.ptr

\* The hook calls of a call, in order.
HookCalls(l) == SelectSeq(l, LAMBDA e : e \in {"cs_enter", "cs_exit"})

\* C12: every call of a push, a pop, front, back, a peek or clear that passes
\* its NULL checks calls cs_enter exactly once and then cs_exit exactly once
\* before it returns, whatever it returns (Ok, Full, Empty, a NULL
\* reference): the hooks are not nested and the critical section is not
\* held after the return.
C12_HooksPaired ==
    (op.name \in Guarded /\ PassesNullChecks(op))
        => (/\ HookCalls(log) = <<"cs_enter", "cs_exit">>
            /\ log[1] = "cs_enter"
            /\ log[Len(log)] = "cs_exit")

\* peek_front has returned the NULL reference for an empty buffer whose
\* start is not 0.
C12_Witness ==
    /\ op.name = "peek_front"
    /\ op.buf
    /\ ret.ref = NullRef
    /\ buffer.size = 0
    /\ buffer.start > 0

\* The reads and writes of start, size and the backing memory.
Accesses == {"rd_start", "wr_start", "rd_size", "wr_size", "rd_mem", "wr_mem"}

\* The i-th event of l happens after a cs_enter with no cs_exit in between.
Held(l, i) ==
    \E j \in 1..(i - 1) :
        /\ l[j] = "cs_enter"
        /\ \A k \in j..i : l[k] # "cs_exit"

\* Every access of l happens while the critical section is held.
AccessesGuarded(l) == \A i \in DOMAIN l : l[i] \in Accesses => Held(l, i)

\* C13: every read or write of start, size or the backing memory made by a
\* public function on an initialized handle happens between that call's
\* cs_enter and its cs_exit.
C13_AllAccessesGuarded ==
    (op.buf /\ op.name \notin {"none", "init"}) => AccessesGuarded(log)

\* C13, amended: every read or write of start, size or the backing memory
\* made by a push, a pop, front, back, a peek or clear happens between that
\* call's cs_enter and its cs_exit; is_empty, is_full and size read size
\* and call no hook.
C13_GuardedExceptQueries ==
    /\ (op.buf /\ op.name \in Guarded) => AccessesGuarded(log)
    /\ (op.buf /\ op.name \in {"is_empty", "is_full", "size"})
           => (/\ \E i \in DOMAIN log : log[i] = "rd_size"
               /\ HookCalls(log) = <<>>)

\* clear has emptied a buffer that was in use, and the hooks are the user's.
C13_Witness ==
    /\ op.name = "clear"
    /\ op.buf
    /\ ret.code = RING_BUFFER_OK
    /\ buffer.cs_enter = "user_hook"
    /\ buffer.cs_exit = "user_hook"
    /\ \E i \in DOMAIN mem : mem[i] # ZeroItem

\* C16: after init has returned Ok, start = 0, size = 0, capacity and
\* data_size are the arguments, data refers to the block obtained, each hook
\* is the caller's when one was given and ring_buffer_cs_dummy otherwise,
\* and the buffer is reported empty.
C16_InitPostcondition ==
    (op.name = "init" /\ ret.code = RING_BUFFER_OK)
        => (/\ buffer.start = 0
            /\ buffer.size = 0
            /\ buffer.capacity = op.arg.capacity
            /\ buffer.data_size = op.arg.data_size % (2 ^ DataSizeWidth)
            /\ buffer.data # "NULL"
            /\ DOMAIN mem = 0..(op.arg.capacity - 1)
            /\ buffer.cs_enter =
                   (IF op.arg.enter # "NULL" THEN op.arg.enter ELSE "ring_buffer_cs_dummy")
            /\ buffer.cs_exit =
                   (IF op.arg.exit # "NULL" THEN op.arg.exit ELSE "ring_buffer_cs_dummy")
            /\ buffer.cs_enter # "NULL"
            /\ buffer.cs_exit # "NULL"
            /\ ring_buffer_is_empty(buffer, mem, ZeroItem, TRUE).ret.flag
            /\ ring_buffer_size(buffer, mem, ZeroItem, TRUE).ret.count = 0)

\* init with an enter hook and no exit hook has returned Ok for capacity >= 2.
C16_Witness ==
    /\ op.name = "init"
    /\ ret.code = RING_BUFFER_OK
    /\ op.arg.enter = "user_hook"
    /\ op.arg.exit = "NULL"
    /\ buffer.capacity >= 2

\* The number of times e occurs in l.
Occurrences(l, e) == Len(SelectSeq(l, LAMBDA x : x = e))

\* C17: init with a NULL handle or a NULL arena reports NullReference and
\* makes no allocation request; any other init makes exactly one, for
\* capacity zeroed elements of data_size bytes; no other function calls the
\* allocator or gives the block back.
C17_OneAllocation ==
    [][/\ (op'.name = "init" /\ (~op'.buf \/ ~op'.arg.arena))
           => (/\ ret'.code = RING_BUFFER_NULL_POINTER
               /\ Occurrences(log', "calloc") = 0
               /\ buffer'.data = buffer.data
               /\ mem' = mem)
       /\ (op'.name = "init" /\ op'.buf /\ op'.arg.arena)
           => (/\ Occurrences(log', "calloc") = 1
               /\ ret'.code = RING_BUFFER_OK
                      => mem' = [k \in 0..(op'.arg.capacity - 1) |-> ZeroItem])
       /\ op'.name \notin {"none", "init"}
           => (/\ Occurrences(log', "calloc") = 0
               /\ buffer'.data = buffer.data
               /\ DOMAIN mem' = DOMAIN mem)]_vars

\* init with a handle and a NULL arena was refused while an initialized
\* handle holds elements.
C17_Witness ==
    /\ op.name = "init"
    /\ op.buf
    /\ ~op.arg.arena
    /\ ret.code = RING_BUFFER_NULL_POINTER
    /\ ready
    /\ buffer.size > 0

\* C18: init returns RING_BUFFER_NULL_POINTER if the handle is NULL and
\* RING_BUFFER_OK otherwise, that is for every call with a handle.
C18_InitOkUnlessNullHandle ==
    op.name = "init"
        => ret.code = (IF op.buf THEN RING_BUFFER_OK ELSE RING_BUFFER_NULL_POINTER)

\* C19: is_empty returns true iff the handle is NULL or size = 0; is_full
\* returns true iff there is a handle and size >= capacity; size returns 0
\* for a NULL handle and size otherwise; none of them changes a field or a
\* slot or calls a hook.
C19_Queries ==
    [][(op'.name \in {"is_empty", "is_full", "size"})
       => (/\ op'.name = "is_empty" => ret'.flag = (~op'.buf \/ buffer.size = 0)
           /\ op'.name = "is_full" => ret'.flag = (op'.buf /\ buffer.size >= buffer.capacity)
           /\ op'.name = "size" => ret'.count = (IF op'.buf THEN buffer.size ELSE 0)
           /\ buffer' = buffer
           /\ mem' = mem
           /\ HookCalls(log') = <<>>)]_vars

\* is_full has returned true for a full buffer of capacity >= 2 whose start
\* is not 0.
C19_Witness ==
    /\ op.name = "is_full"
    /\ op.buf
    /\ ret.flag
    /\ buffer.capacity >= 2
    /\ buffer.size = buffer.capacity
    /\ buffer.start > 0

\* What the scripted run must observe on the elements v.
ScenarioExpected(v) ==
    LET E(c, o, n, s, z) == [code |-> c, out |-> o, size |-> n, start |-> s, slot0 |-> z]
    IN << E(RING_BUFFER_OK, <<>>, 1, 0, v[1]),
          E(RING_BUFFER_OK, <<>>, 2, 0, v[1]),
          E(RING_BUFFER_OK, <<>>, 3, 0, v[1]),
          E(RING_BUFFER_FULL, <<>>, 3, 0, v[1]),
          E(RING_BUFFER_OK, <<v[1]>>, 2, 1, v[1]),
          E(RING_BUFFER_OK, <<>>, 3, 1, v[4]),
          E(RING_BUFFER_OK, <<v[2]>>, 2, 2, v[4]),
          E(RING_BUFFER_OK, <<v[3]>>, 1, 0, v[4]),
          E(RING_BUFFER_OK, <<v[4]>>, 0, 1, v[4]),
          E(RING_BUFFER_EMPTY, <<>>, 0, 1, v[4]) >>

\* C20: on a freshly initialized buffer of capacity 3, push_back of v1, v2,
\* v3 return Ok and size = 3; push_back of v4 returns Full, size still 3;
\* pop_front returns v1, size = 2, start = 1; push_back of v4 returns Ok, is
\* stored in slot 0, size = 3; the next pop_front calls return v2, v3, v4 and
\* then Empty (the claim's run is v = 1, 2, 3, 4).
C20_Scenario ==
    \A i \in DOMAIN script.trace : script.trace[i] = ScenarioExpected(script.vals)[i]

\* The whole script has run on the elements 1, 2, 3, 4.
C20_Witness ==
    /\ script.vals = <<1, 2, 3, 4>>
    /\ Len(script.trace) = Len(ScriptCalls)
    /\ ret.code = RING_BUFFER_EMPTY

\* The main flow is not inside a call, or has run no statement of it yet.
Quiescent == ~Running \/ main.pc = 1

\* C14: when the hooks mask interrupts between cs_enter and cs_exit, every
\* interleaving of calls of the main flow with push, pop and clear calls of
\* an interrupt handler gives the codes, the elements and the start, size
\* and contents of the calls run one after the other, each at the point
\* where it takes effect: no undefined access, no result or state the
\* abstract sequence does not give, and size <= capacity.  The element a
\* peek refers to is compared when the peek returns (main.diverged); the
\* reference outlives the critical section.
C14_Linearizable ==
    (ready /\ buffer.cs_enter = "user_hook" /\ buffer.cs_exit = "user_hook")
        => (/\ ~main.ub
            /\ ~main.diverged
            /\ buffer.size <= buffer.capacity
            /\ Quiescent => (WellFormed(buffer) /\ Contents(buffer, mem) = deque)
            /\ (main.name # "none" /\ ~Running)
                   => (/\ main.ret.code = main.aret.code
                       /\ main.name \notin {"peek_front", "peek_back"}
                              => MainReturned(main, buffer, mem) = main.aret.val))

\* With masking hooks, the interrupt handler has filled the buffer after the
\* main flow called push_back and before its cs_enter: the main flow's push
\* was refused.
C14_Witness ==
    /\ buffer.cs_enter = "user_hook"
    /\ main.name = "push_back"
    /\ ~Running
    /\ main.ret.code = RING_BUFFER_FULL
    /\ main.isr.name \in {"push_front", "push_back"}
    /\ main.isr.code = RING_BUFFER_OK
    /\ main.isr.pc = 1
    /\ buffer.capacity >= 2

\* C15: with NULL hooks, replaced by ring_buffer_cs_dummy, nothing is
\* guarded: the interrupt handler can run its call before any statement of
\* a call of the main flow, between cs_enter and cs_exit included.
C15_DummyHooksDoNotGuard ==
    (ready /\ buffer.cs_enter = "ring_buffer_cs_dummy" /\ ~Halted)
        => (~Masked /\ ENABLED Isr_call)

\* With NULL hooks, the interrupt handler has run push_back between the
\* statement of the main flow's push_back that reads start and size and the
\* one that updates size: both calls returned Ok and wrote slot 0, size grew
\* from 0 to 2, and the contents are those of neither order of the two calls.
C15_Witness ==
    /\ buffer.cs_enter = "ring_buffer_cs_dummy"
    /\ main.name = "push_back"
    /\ ~Running
    /\ main.ret.code = RING_BUFFER_OK
    /\ main.isr.name = "push_back"
    /\ main.isr.code = RING_BUFFER_OK
    /\ Program("push_back")[main.isr.pc] \in {"copy_in_cur", "inc_size"}
    /\ main.cur = 0
    /\ main.isr.slot = 0
    /\ buffer.start = 0
    /\ buffer.size = 2
    /\ buffer.capacity = 2
    /\ Len(deque) = 2
    /\ Contents(buffer, mem) # deque
    /\ Contents(buffer, mem) # <<deque[2], deque[1]>>

\* C21: with capacity N, once pop_front calls have advanced start to N - 1,
\* the next push_back stores its element in slot 0, never in slot N or
\* beyond.
C21_PushBackAfterPopsAtSlotZero ==
    [][(/\ op.name = "pop_front"
        /\ ret.code = RING_BUFFER_OK
        /\ buffer.start = buffer.capacity - 1
        /\ op'.name = "push_back"
        /\ op'.buf
        /\ op'.ptr
        /\ ret'.code = RING_BUFFER_OK)
       => mem' = [mem EXCEPT ![0] = op'.item]]_vars

\* C21, amended: with capacity N and start = N - 1, a successful push_back
\* stores its element in slot (N - 1 + size) mod N, which is slot 0 when
\* exactly one element is stored (size = 1) and slot N - 1 when the buffer is
\* empty; it never stores in slot N or beyond.
C21_PushBackWrapsFromLastStart ==
    [][(/\ buffer.start = buffer.capacity - 1
        /\ op'.name = "push_back"
        /\ op'.buf
        /\ op'.ptr
        /\ ret'.code = RING_BUFFER_OK)
       => (/\ mem' = [mem EXCEPT ![(buffer.capacity - 1 + buffer.size) % buffer.capacity]
                                     = op'.item]
           /\ buffer.size = 1 => mem' = [mem EXCEPT ![0] = op'.item]
           /\ buffer.size = 0 => mem' = [mem EXCEPT ![buffer.capacity - 1] = op'.item]
           /\ DOMAIN mem' = 0..(buffer.capacity - 1))]_vars

\* push_back has stored a non-zero element in slot 0 of a buffer of capacity
\* N >= 3 whose start is N - 1; the element at start is zero.
C21_Witness ==
    /\ op.name = "push_back"
    /\ op.buf
    /\ op.ptr
    /\ ret.code = RING_BUFFER_OK
    /\ buffer.capacity >= 3
    /\ buffer.start = buffer.capacity - 1
    /\ buffer.size = 2
    /\ op.item # ZeroItem
    /\ mem[0] = op.item
    /\ mem[buffer.start] = ZeroItem

\* The first and the second recorded call, once both are made.
First == script.trace[1]
Second == script.trace[2]
BothMade == script.pc = 2 /\ Len(script.trace) = 2

\* C22: on any buffer that is not full, push_front(x) followed immediately
\* by pop_front returns x and restores start and size (the whole handle) to
\* their values before the push; so does push_back(x) followed immediately
\* by pop_back.
C22_PushPopRoundTrip ==
    (/\ BothMade
     /\ First.pre.buffer.size < First.pre.buffer.capacity
     /\ \/ First.op.name = "push_front" /\ Second.op.name = "pop_front"
        \/ First.op.name = "push_back" /\ Second.op.name = "pop_back")
        => (/\ First.ret.code = RING_BUFFER_OK
            /\ Second.ret.code = RING_BUFFER_OK
            /\ Second.out = First.op.item
            /\ Second.buffer = First.pre.buffer
            /\ buffer.start = First.pre.buffer.start
            /\ buffer.size = First.pre.buffer.size
            /\ First.pre.buffer.size = 0 => buffer.size = 0)

\* push_back of a non-zero element onto a buffer that holds zero elements
\* and whose last element is not in the last slot, then pop_back.
C22_Witness ==
    /\ BothMade
    /\ First.op.name = "push_back"
    /\ Second.op.name = "pop_back"
    /\ First.op.item # ZeroItem
    /\ First.pre.buffer.size >= 1
    /\ First.pre.buffer.start >= 1
    /\ Contents(First.pre.buffer, First.pre.mem)[First.pre.buffer.size] = ZeroItem
    /\ Second.ret.code = RING_BUFFER_OK

\* The handle b as ring_buffer_init leaves it when called again with the
\* capacity, element size and hooks b was initialized with.
HookArg(h) == IF h = "ring_buffer_cs_dummy" THEN "NULL" ELSE h
Fresh(b) ==
    ring_buffer_init(b, <<>>, ZeroItem, TRUE, b.data_size, b.capacity,
                     HookArg(b.cs_enter), HookArg(b.cs_exit), TRUE, TRUE)

\* C23: ring_buffer_clear on a present handle returns Ok and sets start and
\* size to 0 whatever they were; it leaves every slot of the backing memory,
\* the capacity, the element size, both hooks and the data reference as they
\* were. The call that follows has, on the cleared handle, the return value,
\* the delivered element, the handle fields and the stored elements it has
\* on a freshly initialized handle.
C23_ClearResets ==
    (BothMade /\ First.op.name = "clear")
        => (/\ First.ret.code = RING_BUFFER_OK
            /\ First.buffer.start = 0
            /\ First.buffer.size = 0
            /\ First.mem = First.pre.mem
            /\ First.buffer.capacity = First.pre.buffer.capacity
            /\ First.buffer.data_size = First.pre.buffer.data_size
            /\ First.buffer.cs_enter = First.pre.buffer.cs_enter
            /\ First.buffer.cs_exit = First.pre.buffer.cs_exit
            /\ First.buffer.data = First.pre.buffer.data
            /\ First.buffer = Fresh(First.pre.buffer).buffer
            /\ LET f == Fresh(First.pre.buffer)
                   r == Apply(Second.op.name, f.buffer, f.mem, Second.op.item)
               IN /\ Second.ret = r.ret
                  /\ Second.out = r.out
                  /\ Second.buffer = r.buffer
                  /\ Contents(Second.buffer, Second.mem) = Contents(r.buffer, r.mem))

\* clear of a full buffer whose start is not 0 and whose slots hold a
\* non-zero element, then a push that is accepted.
C23_Witness ==
    /\ BothMade
    /\ First.op.name = "clear"
    /\ First.pre.buffer.start >= 1
    /\ First.pre.buffer.size = First.pre.buffer.capacity
    /\ \E k \in DOMAIN First.pre.mem : First.pre.mem[k] # ZeroItem
    /\ Second.op.name = "push_front"
    /\ Second.ret.code = RING_BUFFER_OK
    /\ buffer.size = 1

\* C24: ring_buffer_clear is idempotent: a second clear right after a clear
\* returns Ok as the first did and leaves the handle and the backing memory
\* exactly as the first clear left them.
C24_ClearIdempotent ==
    (BothMade /\ First.op.name = "clear" /\ Second.op.name = "clear")
        => (/\ First.ret.code = RING_BUFFER_OK
            /\ Second.ret.code = RING_BUFFER_OK
            /\ Second.buffer = First.buffer
            /\ Second.mem = First.mem
            /\ buffer = First.buffer
            /\ mem = First.mem)

\* Two clears in a row of a buffer that held elements and had start off 0.
C24_Witness ==
    /\ BothMade
    /\ First.op.name = "clear"
    /\ Second.op.name = "clear"
    /\ First.pre.buffer.start >= 1
    /\ First.pre.buffer.size >= 2
    /\ Second.ret.code = RING_BUFFER_OK
    /\ buffer.start = 0
    /\ buffer.size = 0

\* The first recorded call is made.
FirstMade == script.pc >= 1 /\ Len(script.trace) >= 1

PopOf(name) == IF name = "front" THEN "pop_front" ELSE "pop_back"

\* C26: on a buffer that is not empty, front copies into the output buffer
\* the element pop_front would return and back the element pop_back would
\* return; both return Ok and remove nothing: start, size, the other fields
\* and every slot are unchanged, so the same call made again, and the pop
\* made right after, deliver the same element.
C26_FrontBackCopy ==
    (/\ BothMade
     /\ First.op.name \in {"front", "back"}
     /\ First.pre.buffer.size > 0)
        => LET pop == Apply(PopOf(First.op.name), First.pre.buffer, First.pre.mem, 0)
           IN /\ First.ret.code = RING_BUFFER_OK
              /\ pop.ret.code = RING_BUFFER_OK
              /\ First.out = pop.out
              /\ First.buffer = First.pre.buffer
              /\ First.mem = First.pre.mem
              /\ Second.op.name \in {First.op.name, PopOf(First.op.name)}
                    => (/\ Second.ret.code = RING_BUFFER_OK
                        /\ Second.out = First.out)
              /\ Second.op.name = First.op.name
                    => (buffer = First.pre.buffer /\ mem = First.pre.mem)

\* back on a buffer whose first and last elements differ and whose last
\* element lies before start in memory, then pop_back.
C26_Witness ==
    /\ BothMade
    /\ First.op.name = "back"
    /\ Second.op.name = "pop_back"
    /\ First.pre.buffer.size >= 2
    /\ First.pre.buffer.start + First.pre.buffer.size > First.pre.buffer.capacity
    /\ First.pre.mem[First.pre.buffer.start] = ZeroItem
    /\ First.out # ZeroItem
    /\ out = First.out
    /\ buffer.size = First.pre.buffer.size - 1

\* C27: with a present handle, ring_buffer_peek_front returns a reference
\* to the slot at index start and ring_buffer_peek_back a reference to the
\* slot at index (start + size - 1) mod capacity, the slots front and back
\* copy from; both return the absent reference when size is 0; neither
\* changes the handle or any slot.
C27_PeekSlots ==
    [][(op'.name \in {"peek_front", "peek_back"} /\ op'.buf)
       => LET front == op'.name = "peek_front"
              copy == IF front
                      THEN ring_buffer_front(buffer, mem, ZeroItem, TRUE, TRUE)
                      ELSE ring_buffer_back(buffer, mem, ZeroItem, TRUE, TRUE)
          IN /\ buffer.size = 0 => ret'.ref = NullRef
             /\ buffer.size > 0
                   => LET slot == IF front
                                  THEN buffer.start
                                  ELSE (buffer.start + buffer.size - 1) % buffer.capacity
                      IN /\ ret'.ref = slot * buffer.data_size
                         /\ ret'.ref # NullRef
                         /\ slot \in DOMAIN mem
                         /\ copy.ret.code = RING_BUFFER_OK
                         /\ copy.out = mem[ret'.ref \div buffer.data_size]
             /\ buffer' = buffer
             /\ mem' = mem]_vars

\* peek_back on a buffer whose elements wrap past the last slot and whose
\* last element is the only non-zero one.
C27_Witness ==
    /\ op.name = "peek_back"
    /\ op.buf
    /\ buffer.size >= 2
    /\ buffer.start + buffer.size > buffer.capacity
    /\ ret.ref = ((buffer.start + buffer.size - 1) % buffer.capacity) * buffer.data_size
    /\ mem[ret.ref \div buffer.data_size] # ZeroItem
    /\ mem[buffer.start] = ZeroItem

\* The functions other than ring_buffer_init.
LaterCalls ==
    {"push_front", "push_back", "pop_front", "pop_back", "front", "back",
     "peek_front", "peek_back", "clear", "is_empty", "is_full", "size"}

\* C28: every call of a function other than ring_buffer_init leaves the
\* capacity, the element size, the data reference and both hooks of the
\* handle as they were, and the backing memory keeps its slots: nothing is
\* ever resized.
C28_FixedFields ==
    [][op'.name \in LaterCalls
       => (/\ buffer'.capacity = buffer.capacity
           /\ buffer'.data_size = buffer.data_size
           /\ buffer'.data = buffer.data
           /\ buffer'.cs_enter = buffer.cs_enter
           /\ buffer'.cs_exit = buffer.cs_exit
           /\ DOMAIN mem' = DOMAIN mem)]_vars

\* A clear of a full buffer initialized with the caller's hooks.
C28_Witness ==
    /\ op.name = "clear"
    /\ op.buf
    /\ ret.code = RING_BUFFER_OK
    /\ buffer.capacity = MaxCap
    /\ buffer.data_size \in DataSizes
    /\ buffer.data = "block"
    /\ buffer.cs_enter = "user_hook"
    /\ buffer.cs_exit = "user_hook"
    /\ DOMAIN mem = 0..(MaxCap - 1)
    /\ \A k \in DOMAIN mem : mem[k] # ZeroItem

\* C29: a successful ring_buffer_push_back writes the item into the slot
\* (start + size) mod capacity, which is start + size less capacity when the
\* sum reaches capacity, changes no other slot, leaves start and the other
\* fields unchanged and adds exactly one to size; with start = capacity - 1
\* and size = 1 the item lands in slot 0 and size becomes 2.
C29_PushBackEffect ==
    [][(/\ op'.name = "push_back"
        /\ op'.buf
        /\ op'.ptr
        /\ ret'.code = RING_BUFFER_OK)
       => LET sum == buffer.start + buffer.size
              slot == IF sum >= buffer.capacity THEN sum - buffer.capacity ELSE sum
          IN /\ slot = sum % buffer.capacity
             /\ slot \in DOMAIN mem
             /\ mem' = [mem EXCEPT ![slot] = op'.item]
             /\ buffer' = [buffer EXCEPT !.size = buffer.size + 1]
             /\ buffer'.start = buffer.start
             /\ (buffer.start = buffer.capacity - 1 /\ buffer.size = 1)
                   => (/\ mem'[0] = op'.item
                       /\ \A k \in DOMAIN mem \ {0} : mem'[k] = mem[k]
                       /\ buffer'.size = 2)]_vars

\* A push_back accepted with start at the last slot and one element stored:
\* the non-zero item is in slot 0 and size is 2.
C29_Witness ==
    /\ op.name = "push_back"
    /\ op.buf
    /\ op.ptr
    /\ ret.code = RING_BUFFER_OK
    /\ buffer.capacity = MaxCap
    /\ buffer.start = buffer.capacity - 1
    /\ buffer.size = 2
    /\ op.item # ZeroItem
    /\ mem[0] = op.item
    /\ mem[1] = ZeroItem
    /\ mem[buffer.start] # ZeroItem

\* C30: a successful ring_buffer_push_front sets start to capacity - 1 when
\* start was 0 and to start - 1 otherwise, writes the item into the slot at
\* the new start and into no other slot, adds exactly one to size and leaves
\* the other fields unchanged.
C30_PushFrontEffect ==
    [][(/\ op'.name = "push_front"
        /\ op'.buf
        /\ op'.ptr
        /\ ret'.code = RING_BUFFER_OK)
       => (/\ buffer.start = 0 => buffer'.start = buffer.capacity - 1
           /\ buffer.start # 0 => buffer'.start = buffer.start - 1
           /\ buffer'.start \in DOMAIN mem
           /\ mem' = [mem EXCEPT ![buffer'.start] = op'.item]
           /\ buffer'.size = buffer.size + 1
           /\ buffer' = [buffer EXCEPT !.start = buffer'.start, !.size = buffer.size + 1])]_vars

\* A push_front accepted with start at 0 and elements stored: start is the
\* last slot, which holds the non-zero item, and the old first slot holds a
\* zero element.
C30_Witness ==
    /\ op.name = "push_front"
    /\ op.buf
    /\ op.ptr
    /\ ret.code = RING_BUFFER_OK
    /\ buffer.capacity = MaxCap
    /\ buffer.start = buffer.capacity - 1
    /\ buffer.size >= 2
    /\ op.item # ZeroItem
    /\ mem[buffer.start] = op.item
    /\ mem[0] = ZeroItem

\* C31: a successful ring_buffer_pop_front copies the element stored at the
\* old start into the output buffer when one is given, sets start to
\* (start + 1) mod capacity, which is 0 when the old start was
\* capacity - 1, takes exactly one off size, and changes no slot of the
\* backing memory and no other field.
C31_PopFrontEffect ==
    [][(/\ op'.name = "pop_front"
        /\ op'.buf
        /\ ret'.code = RING_BUFFER_OK)
       => (/\ buffer.start \in DOMAIN mem
           /\ op'.ptr => out' = mem[buffer.start]
           /\ buffer'.start = (buffer.start + 1) % buffer.capacity
           /\ buffer.start = buffer.capacity - 1 => buffer'.start = 0
           /\ buffer.start # buffer.capacity - 1 => buffer'.start = buffer.start + 1
           /\ buffer'.size = buffer.size - 1
           /\ buffer' = [buffer EXCEPT !.start = buffer'.start, !.size = buffer.size - 1]
           /\ mem' = mem)]_vars

\* A pop_front accepted with start at the last slot: the non-zero element of
\* that slot is delivered, start is 0 and slot 0 holds a zero element.
C31_Witness ==
    /\ op.name = "pop_front"
    /\ op.buf
    /\ op.ptr
    /\ ret.code = RING_BUFFER_OK
    /\ buffer.capacity = MaxCap
    /\ buffer.start = 0
    /\ buffer.size >= 1
    /\ out # ZeroItem
    /\ mem[buffer.capacity - 1] = out
    /\ mem[0] = ZeroItem

\* C32: a successful ring_buffer_pop_back copies the element stored at slot
\* (start + size - 1) mod capacity, size being the size before the call,
\* into the output buffer when one is given, leaves start unchanged, takes
\* exactly one off size, and changes no slot of the backing memory and no
\* other field.
C32_PopBackEffect ==
    [][(/\ op'.name = "pop_back"
        /\ op'.buf
        /\ ret'.code = RING_BUFFER_OK)
       => LET slot == (buffer.start + buffer.size - 1) % buffer.capacity
          IN /\ slot \in DOMAIN mem
             /\ op'.ptr => out' = mem[slot]
             /\ buffer'.start = buffer.start
             /\ buffer'.size = buffer.size - 1
             /\ buffer' = [buffer EXCEPT !.size = buffer.size - 1]
             /\ mem' = mem]_vars

\* A pop_back accepted on a buffer whose elements wrapped past the last
\* slot: the non-zero element of slot 0 is delivered, the slot keeps it, and
\* the slot at start holds a zero element.
C32_Witness ==
    /\ op.name = "pop_back"
    /\ op.buf
    /\ op.ptr
    /\ ret.code = RING_BUFFER_OK
    /\ buffer.capacity = MaxCap
    /\ buffer.start = buffer.capacity - 1
    /\ buffer.size = 1
    /\ out # ZeroItem
    /\ mem[0] = out
    /\ mem[buffer.start] = ZeroItem

\* The slots that hold the stored elements.
LiveSlots(b) == {(b.start + i) % b.capacity : i \in 0..(b.size - 1)}

\* C33: a successful ring_buffer_push_front or ring_buffer_push_back makes
\* one write to the backing memory, into one slot that held none of the
\* size stored elements before the call; every element stored before keeps
\* its slot, its value and its place in the order, the item being added
\* before the first or after the last.
C33_PushKeepsElements ==
    [][(/\ op'.name \in {"push_front", "push_back"}
        /\ op'.buf
        /\ op'.ptr
        /\ ret'.code = RING_BUFFER_OK)
       => (/\ Occurrences(log', "wr_mem") = 1
           /\ \E s \in DOMAIN mem \ LiveSlots(buffer) :
                 /\ mem' = [mem EXCEPT ![s] = op'.item]
                 /\ LiveSlots(buffer') = LiveSlots(buffer) \cup {s}
           /\ \A k \in LiveSlots(buffer) : mem'[k] = mem[k]
           /\ Cardinality(LiveSlots(buffer)) = buffer.size
           /\ op'.name = "push_front"
                 => Contents(buffer', mem') = <<op'.item>> \o Contents(buffer, mem)
           /\ op'.name = "push_back"
                 => Contents(buffer', mem') = Append(Contents(buffer, mem), op'.item))]_vars

\* A push_front that fills the buffer: the item differs from every element
\* stored before, and those elements are all still there.
C33_Witness ==
    /\ op.name = "push_front"
    /\ op.buf
    /\ op.ptr
    /\ ret.code = RING_BUFFER_OK
    /\ buffer.capacity = MaxCap
    /\ buffer.size = buffer.capacity
    /\ buffer.start >= 1
    /\ mem[buffer.start] = op.item
    /\ \A k \in DOMAIN mem \ {buffer.start} : mem[k] # op.item

\* The main flow is in a push whose next statement is the copy of the item,
\* and the hooks of the handle mask interrupts.
AtCopy ==
    /\ Running
    /\ main.name \in {"push_front", "push_back"}
    /\ Program(main.name)[main.pc] \in {"copy_in_start", "copy_in_cur"}
    /\ HookMasks(buffer.cs_enter)

\* The slot the copy of the push is about to write.
CopyTarget == IF main.name = "push_front" THEN buffer.start ELSE main.cur

\* C34: in ring_buffer_push_front and in ring_buffer_push_back the item is
\* copied into its slot before size is incremented: when the copy is about
\* to run, size does not yet count the slot it writes.
C34_CopyBeforeSize ==
    AtCopy => CopyTarget \notin LiveSlots(buffer)

\* C34, amended: ring_buffer_push_back copies the item into its slot and
\* increments size afterwards; ring_buffer_push_front moves start back and
\* increments size first and copies the item afterwards, so that when its
\* copy is about to run size already counts the slot at start, which does
\* not hold the item yet.  Both steps run inside the critical section.
C34_CopyAndSizeOrder ==
    AtCopy
        => (/\ main.in_cs
            /\ CopyTarget \in DOMAIN mem
            /\ main.name = "push_back"
                  => (/\ CopyTarget \notin LiveSlots(buffer)
                      /\ buffer.size + 1 = Len(deque)
                      /\ Program(main.name)[main.pc + 1] = "inc_size")
            /\ main.name = "push_front"
                  => (/\ CopyTarget \in LiveSlots(buffer)
                      /\ buffer.size = Len(deque)
                      /\ Program(main.name)[main.pc - 1] = "inc_size"))

\* ring_buffer_push_front about to copy a non-zero item: size counts the
\* slot at start, which still holds a zero element.
C34_Witness ==
    /\ AtCopy
    /\ main.name = "push_front"
    /\ main.item # ZeroItem
    /\ buffer.size >= 2
    /\ buffer.start = buffer.capacity - 1
    /\ mem[buffer.start] = ZeroItem

\* What the queries report in the current state.
ReportsFull == ring_buffer_is_full(buffer, mem, ZeroItem, TRUE).ret.flag
ReportsEmpty == ring_buffer_is_empty(buffer, mem, ZeroItem, TRUE).ret.flag

\* C35: in every state of an initialized handle, ring_buffer_is_full
\* returns true exactly when ring_buffer_push_front and
\* ring_buffer_push_back with an item would return Full, and
\* ring_buffer_is_empty returns true exactly when ring_buffer_pop_front,
\* ring_buffer_pop_back, ring_buffer_front and ring_buffer_back would return
\* Empty and ring_buffer_peek_front and ring_buffer_peek_back a NULL
\* reference.
C35_QueriesAgree ==
    ready
        => (/\ \A item \in Items :
                  /\ ReportsFull
                        = (ring_buffer_push_front(buffer, mem, ZeroItem, TRUE, TRUE, item).ret.code
                              = RING_BUFFER_FULL)
                  /\ ReportsFull
                        = (ring_buffer_push_back(buffer, mem, ZeroItem, TRUE, TRUE, item).ret.code
                              = RING_BUFFER_FULL)
            /\ \A hasOut \in BOOLEAN :
                  /\ ReportsEmpty
                        = (ring_buffer_pop_front(buffer, mem, ZeroItem, TRUE, hasOut).ret.code
                              = RING_BUFFER_EMPTY)
                  /\ ReportsEmpty
                        = (ring_buffer_pop_back(buffer, mem, ZeroItem, TRUE, hasOut).ret.code
                              = RING_BUFFER_EMPTY)
            /\ ReportsEmpty
                  = (ring_buffer_front(buffer, mem, ZeroItem, TRUE, TRUE).ret.code = RING_BUFFER_EMPTY)
            /\ ReportsEmpty
                  = (ring_buffer_back(buffer, mem, ZeroItem, TRUE, TRUE).ret.code = RING_BUFFER_EMPTY)
            /\ ReportsEmpty
                  = (ring_buffer_peek_front(buffer, mem, ZeroItem, TRUE).ret.ref = NullRef)
            /\ ReportsEmpty
                  = (ring_buffer_peek_back(buffer, mem, ZeroItem, TRUE).ret.ref = NullRef))

\* A push_back refused with Full on a buffer of the largest capacity whose
\* elements wrap: is_full reports true and is_empty false.
C35_Witness ==
    /\ ready
    /\ op.name = "push_back"
    /\ op.buf
    /\ op.ptr
    /\ ret.code = RING_BUFFER_FULL
    /\ buffer.capacity = MaxCap
    /\ buffer.start >= 1
    /\ ReportsFull
    /\ ~ReportsEmpty

\* C36: in every state reached from a successful ring_buffer_init, for
\* every capacity init accepts, ring_buffer_is_empty and ring_buffer_is_full
\* do not both return true, and a push or a pop can succeed.
C36_NotEmptyAndFull ==
    ready
        => (/\ ~(ReportsEmpty /\ ReportsFull)
            /\ \/ \E item \in Items :
                     ring_buffer_push_back(buffer, mem, ZeroItem, TRUE, TRUE, item).ret.code
                        = RING_BUFFER_OK
               \/ ring_buffer_pop_front(buffer, mem, ZeroItem, TRUE, TRUE).ret.code
                     = RING_BUFFER_OK)

\* C37: with size_t of any width, for every capacity a size_t holds, the sum
\* start + size that ring_buffer_push_back, ring_buffer_pop_back,
\* ring_buffer_back and ring_buffer_peek_back form does not wrap, so that a
\* successful push_back writes slot (start + size) mod capacity and the
\* other three use slot (start + size - 1) mod capacity.
C37_SumDoesNotWrap ==
    [][(/\ op'.name \in {"push_back", "pop_back", "back", "peek_back"}
        /\ ret'.code \notin {RING_BUFFER_FULL, RING_BUFFER_EMPTY}
        /\ buffer.size > 0 \/ op'.name = "push_back")
       => LET slot == (buffer.start + buffer.size) % buffer.capacity
              last == (buffer.start + buffer.size - 1) % buffer.capacity
          IN /\ SizeT(buffer.start + buffer.size) = buffer.start + buffer.size
             /\ op'.name = "push_back" => mem' = [mem EXCEPT ![slot] = op'.item]
             /\ op'.name \in {"pop_back", "back"} => out' = mem[last]
             /\ op'.name = "peek_back" => ret'.ref = last * buffer.data_size]_vars

\* C38: after a successful ring_buffer_init the element size in the handle
\* is the element size argument, whatever size_t value it has, so that the
\* slots, data_size bytes each at offset index * data_size, fill the
\* data_size * capacity bytes that init requested.
C38_DataSizeStored ==
    (op.name = "init" /\ ret.code = RING_BUFFER_OK)
        => (/\ buffer.data_size = op.arg.data_size
            /\ buffer.capacity * buffer.data_size = op.arg.data_size * op.arg.capacity)

\* C39: ring_buffer_back and ring_buffer_peek_back take capacity once off
\* start + size - 1 when it is at least capacity: on a handle with
\* size >= 1 and capacity <= start + size - 1 < 2 * capacity they use slot
\* start + size - 1 - capacity, a slot of 0 .. capacity - 1; with
\* start = capacity = 1 and size = 1 it is slot 0.
C39_BackWrapsOnce ==
    [][(/\ op'.name \in {"back", "peek_back"}
        /\ buffer.size >= 1
        /\ buffer.capacity <= buffer.start + buffer.size - 1
        /\ buffer.start + buffer.size - 1 < 2 * buffer.capacity)
       => LET slot == buffer.start + buffer.size - 1 - buffer.capacity
          IN /\ slot \in 0..(buffer.capacity - 1)
             /\ slot \in DOMAIN mem
             /\ op'.name = "back" => (ret'.code = RING_BUFFER_OK /\ out' = mem[slot])
             /\ op'.name = "peek_back" => ret'.ref = slot * buffer.data_size
             /\ (buffer.start = 1 /\ buffer.size = 1 /\ buffer.capacity = 1) => slot = 0
             /\ buffer' = buffer
             /\ mem' = mem]_vars

\* back on a handle assigned start = 1, size = 1 and capacity = 1 over a
\* block of more slots: the non-zero element of slot 0 is delivered.
C39_Witness ==
    /\ op.name = "back"
    /\ ret.code = RING_BUFFER_OK
    /\ buffer.start = 1
    /\ buffer.size = 1
    /\ buffer.capacity = 1
    /\ 1 \in DOMAIN mem
    /\ mem[0] # ZeroItem
    /\ mem[1] = ZeroItem
    /\ out = mem[0]

\* The call of the main flow has returned.
HasReturned == main.name # "none" /\ ~Running

\* C40: every call returns: a call in progress, whatever the size and the
\* capacity of the buffer, runs its statements one after the other, none
\* more than once, and reaches its return, outside the critical section,
\* with the outcome of the call.
C40_CallsReturn ==
    /\ Running ~> HasReturned
    /\ [][(Running /\ main'.name = main.name /\ main'.pc # main.pc)
             => (main'.pc > main.pc /\ main'.pc <= Len(Program(main.name)) + 1)]_vars
    /\ [](HasReturned => (~main.ub /\ ~main.diverged /\ ~main.in_cs))

\* ring_buffer_push_front has returned Ok and has filled the buffer.
C40_Witness ==
    /\ HasReturned
    /\ main.name = "push_front"
    /\ main.ret.code = RING_BUFFER_OK
    /\ buffer.capacity = MaxIrqCap
    /\ buffer.size = buffer.capacity

====
